---- MODULE Spec2Model ----
(***************************************************************************)
(* A model of the rossum-api client library: the polling loops, the        *)
(* sideloading, the upload fan-out, the retry wrapper, the retrieve,       *)
(* create, update, delete and list methods of AsyncRossumAPIClient, and    *)
(* the schema tree, the rules and the hook templates of rossum_api.models. *)
(*                                                                         *)
(* Each operation of the client is a coroutine; its position is a pc       *)
(* variable and each await is a step boundary.  The server is part of the  *)
(* environment and changes its resources at any time.                      *)
(***************************************************************************)
EXTENDS Integers, Sequences, FiniteSets, TLC

VARIABLES
    \* ---- poll_annotation / _sideload ----
    srv_annotation,     \* the server's annotation resource (its status changes)
    pa_predicate,       \* argument: the statuses the caller's predicate accepts
    pa_sleep_s,         \* argument: the seconds slept between two fetches
    pa_sideloads,       \* argument: Sequence[Sideload]
    pa_pc,              \* position of the poll_annotation coroutine
    annotation_json,    \* local: the JSON dict last fetched (mutated by _sideload)
    annotation,         \* local: the deserialized annotation the predicate sees
    sideload_tasks,     \* the tasks created by _sideload, one per sideload
    pa_result,          \* the value poll_annotation returned
    pa_log,             \* history: what the call has done so far
    \* ---- poll_task ----
    srv_task,           \* the server's task resource
    pt_predicate,       \* argument: the statuses the caller's predicate accepts
    pt_sleep_s,         \* argument: the seconds slept between two retrievals
    pt_pc,              \* position of the poll_task coroutine
    task,               \* local: the task last retrieved
    pt_result,          \* the value poll_task returned
    pt_log,             \* history of the call
    \* ---- import_document / upload_document ----
    up_op,              \* which of the two methods is called
    up_files,           \* argument: Sequence[tuple[path, filename]]
    up_args,            \* arguments queue_id, values, metadata
    up_pc,              \* position of the calling coroutine
    upload_tasks,       \* the tasks created by the call, one per file
    up_completed,       \* the indexes of the finished tasks, in completion order
    srv_uploads,        \* the server: the upload requests in arrival order
    up_result,          \* the list the call returned
    \* ---- the client's construction and the retrying transport ----
    client_args,        \* the arguments of AsyncRossumAPIClient(...)
    http_client,        \* self._http_client: the configuration it was built with
    rq_pc,              \* position of one request in the retry wrapper
    rq_retries,         \* retries made for the request so far
    rq_failure,         \* how the last attempt failed
    rq_delay,           \* the delay slept before the next attempt
    rq_count,           \* requests finished so far
    \* ---- the schema tree ----
    schema,             \* the Schema object the methods are called on
    sc_call,            \* the last call made on it, with its arguments
    sc_result,          \* what that call returned (a generator's items, as a list)
    \* ---- rules ----
    rule_data,          \* the dict given to Rule.from_dict
    rule_result,        \* what Rule.from_dict returned or raised
    \* ---- hook templates ----
    ht_args,            \* the arguments given to HookTemplate(...)
    hook_template,      \* the object constructed, or what the constructor raised
    \* ---- the awaitable methods of the client ----
    fc_call,            \* the method called, with its arguments
    fc_pc,              \* position of the method's coroutine
    fc_http_calls,      \* history: the calls made on self._http_client, in order
    fc_responses,       \* what the awaits returned so far, one entry per await
    fc_result,          \* what the method returned or raised
    \* ---- the list_* methods of the client ----
    ls_call,            \* the method called, with its arguments
    ls_pc,              \* position of the method's asynchronous generator
    ls_fetch_all_calls, \* history: the calls of self._http_client.fetch_all
    ls_records,         \* the JSON records the underlying fetch produces, in order
    ls_fetched,         \* how many of them the generator has taken
    ls_deserialized,    \* history: the objects self._deserializer has built
    ls_yielded,         \* the items the consumer has received
    ls_asked            \* how many items the consumer has asked for

pa_vars == <<srv_annotation, pa_predicate, pa_sleep_s, pa_sideloads, pa_pc, annotation_json,
             annotation, sideload_tasks, pa_result, pa_log>>
pt_vars == <<srv_task, pt_predicate, pt_sleep_s, pt_pc, task, pt_result, pt_log>>
up_vars == <<up_op, up_files, up_args, up_pc, upload_tasks, up_completed, srv_uploads,
             up_result>>
rq_vars == <<client_args, http_client, rq_pc, rq_retries, rq_failure, rq_delay, rq_count>>
sc_vars == <<schema, sc_call, sc_result>>
rl_vars == <<rule_data, rule_result>>
ht_vars == <<ht_args, hook_template>>
fc_vars == <<fc_call, fc_pc, fc_http_calls, fc_responses, fc_result>>
ls_vars == <<ls_call, ls_pc, ls_fetch_all_calls, ls_records, ls_fetched, ls_deserialized,
             ls_yielded, ls_asked>>
vars == <<pa_vars, pt_vars, up_vars, rq_vars, sc_vars, rl_vars, ht_vars, fc_vars, ls_vars>>

\* Python's None, and a value for "not assigned yet".
None == [none |-> TRUE]
Unset == [unset |-> TRUE]

-----------------------------------------------------------------------------
(* Bounds of the model *)

\* The longest `sideloads` argument tried.
MaxSideloads == 2

\* The longest `files` argument tried.
MaxFiles == 2

\* The largest n_retries a caller passes, and the number of requests made.
MaxNRetries == 3
MaxRequests == 2

\* The most nodes (sections, multivalues, tuples, datapoints) of a schema
\* that is traversed.
MaxNodes == 4

\* The most nodes of a schema that is serialized.
MaxSerdeNodes == 3

\* The nodes of a schema whose formula and reasoning fields are listed.
MaxFieldNodes == 4

\* The most actions of a rule.
MaxActions == 2

\* The most characters of the url of a hook template.
MaxUrlLen == 4

\* The longest `ordering` argument of a list method, and the most records
\* the fetch under it produces.
MaxOrdering == 1
MaxRecords == 2

\* The fetches and sleeps of a polling loop that its history remembers: the
\* last ones.
MaxTrace == 3

-----------------------------------------------------------------------------
(* Resources, URLs and the deserializer *)

AnnotationStatuses == {"importing", "to_review", "exported"}
Sideloads == {"content", "documents", "modifiers"}

\* A URL is its path segments.
Url(segments) == [path |-> segments]

\* rossum_api.utils.to_singular: the key of the annotation JSON a sideload fills.
to_singular(sideload) ==
    CASE sideload = "documents" -> "document"
      [] sideload = "modifiers" -> "modifier"
      [] OTHER -> sideload

\* The annotation JSON the server sends for GET annotations/<id>.
\* modifier is None until somebody has modified the annotation.
AnnotationJson(srv) ==
    [id       |-> 7,
     status   |-> srv.status,
     document |-> Url(<<"documents", "31">>),
     modifier |-> IF srv.modified THEN Url(<<"users", "5">>) ELSE None,
     content  |-> Url(<<"annotations", "7", "content">>)]

\* The JSON the server sends for GET <sideload_url>.  The content endpoint
\* wraps the list of sections in a dict.
SideloadJson(url) ==
    IF url.path[Len(url.path)] = "content"
    THEN [content |-> [sections_of |-> url.path[2]]]
    ELSE [url |-> url, body |-> url.path[1]]

\* self._deserializer(resource, json): the model object built from the JSON.
deserializer(resource, json) == [cls |-> resource, data |-> json]

\* predicate(annotation), for the predicates "status in accepted".
predicate(accepted, obj) == obj.data.status \in accepted

-----------------------------------------------------------------------------
(* poll_annotation *)

RECURSIVE SeqsUpTo(_, _)
SeqsUpTo(S, n) ==
    IF n = 0 THEN {<<>>}
    ELSE LET shorter == SeqsUpTo(S, n - 1)
         IN  shorter \cup {Append(s, x) : s \in {t \in shorter : Len(t) = n - 1}, x \in S}

\* The sleep_s arguments callers give; 3 is the default.
SleepSeconds == {1, 3}

\* The events of the history of a polling loop.
FetchEvent == [fetch |-> TRUE]
SleepEvent(seconds) == [sleep |-> seconds]

\* The history with one more event, cut to its last MaxTrace events.
Push(trace, event) ==
    LET longer == Append(trace, event)
    IN  IF Len(longer) > MaxTrace THEN Tail(longer) ELSE longer

\* A loop with a backoff: the delay doubles after the first round.
sleep_delay_doubling(sleep_s, rounds) == IF rounds <= 1 THEN sleep_s ELSE 2 * sleep_s

\* asyncio.sleep(sleep_s), lines 1004 and 1028: the delay of the sleep of a
\* round is the argument, whatever the round.
sleep_delay(sleep_s, rounds) == sleep_s

pa_log0 ==
    [last_fetched     |-> Unset,   \* the annotation JSON as it was last fetched
     pred_true        |-> FALSE,   \* the predicate has returned true
     fetch_after_true |-> FALSE,   \* the annotation was fetched after that
     rounds           |-> 0,       \* 0: no fetch, 1: one fetch, 2: more than one
     requests         |-> <<>>,    \* per sideload: number of requests issued
     request_early    |-> FALSE,   \* a sideload request while pred_true was false
     events           |-> "none",  \* the last of "fetch" / "sleep"
     trace            |-> <<>>,    \* the last fetches and sleeps, in order
     completed        |-> <<>>]    \* the sideload tasks, in the order they finished

pa_Idle ==
    /\ srv_annotation = [status |-> "importing", modified |-> FALSE]
    /\ pa_predicate = {}
    /\ pa_sleep_s = 3
    /\ pa_sideloads = <<>>
    /\ pa_pc = "idle"
    /\ annotation_json = Unset
    /\ annotation = Unset
    /\ sideload_tasks = <<>>
    /\ pa_result = Unset
    /\ pa_log = pa_log0

pa_Init ==
    /\ srv_annotation \in [status : AnnotationStatuses, modified : BOOLEAN]
    /\ pa_predicate \in SUBSET AnnotationStatuses
    /\ pa_sleep_s \in SleepSeconds
    /\ pa_sideloads \in SeqsUpTo(Sideloads, MaxSideloads)
    /\ pa_pc = "start"
    /\ annotation_json = Unset
    /\ annotation = Unset
    /\ sideload_tasks = <<>>
    /\ pa_result = Unset
    /\ pa_log = [pa_log0 EXCEPT !.requests = [i \in DOMAIN pa_sideloads |-> 0]]

\* The environment: the annotation changes its status, or gets a modifier.
srv_annotation_change ==
    /\ pa_pc \notin {"idle", "done", "raised"}
    /\ \/ \E s \in AnnotationStatuses \ {srv_annotation.status} :
             srv_annotation' = [srv_annotation EXCEPT !.status = s]
       \/ /\ ~srv_annotation.modified
          /\ srv_annotation' = [srv_annotation EXCEPT !.modified = TRUE]
    /\ UNCHANGED <<pa_predicate, pa_sleep_s, pa_sideloads, pa_pc, annotation_json, annotation,
                   sideload_tasks, pa_result, pa_log>>
    /\ UNCHANGED <<pt_vars, up_vars, rq_vars, sc_vars, rl_vars, ht_vars, fc_vars, ls_vars>>

\* What one fetch of the annotation records in the history.
LogFetch(log, json) ==
    [log EXCEPT !.last_fetched = json,
                !.fetch_after_true = log.fetch_after_true \/ log.pred_true,
                !.rounds = IF log.rounds = 0 THEN 1 ELSE 2,
                !.events = "fetch",
                !.trace = Push(log.trace, FetchEvent)]

\* poll_annotation, lines 999-1001: the first fetch_one and the early parse.
poll_annotation_fetch ==
    /\ pa_pc = "start"
    /\ annotation_json' = AnnotationJson(srv_annotation)
    /\ annotation' = deserializer("Annotation", annotation_json')
    /\ pa_log' = LogFetch(pa_log, annotation_json')
    /\ pa_pc' = "check"
    /\ UNCHANGED <<srv_annotation, pa_predicate, pa_sleep_s, pa_sideloads, sideload_tasks, pa_result>>
    /\ UNCHANGED <<pt_vars, up_vars, rq_vars, sc_vars, rl_vars, ht_vars, fc_vars, ls_vars>>

\* A loop that has lost its `not`: `while predicate(annotation)`.
while_not_without_not(holds) == IF holds THEN "sleep" ELSE "after_loop"

\* The branch of `while not predicate(annotation)`: the loop is left when the
\* predicate is true and entered otherwise.
while_not(holds) == IF holds THEN "after_loop" ELSE "sleep"

\* poll_annotation, line 1003: the loop condition.
poll_annotation_check ==
    /\ pa_pc = "check"
    /\ LET holds == predicate(pa_predicate, annotation)
       IN  /\ pa_pc' = while_not(holds)
           /\ pa_log' = [pa_log EXCEPT !.pred_true = pa_log.pred_true \/ holds]
    /\ UNCHANGED <<srv_annotation, pa_predicate, pa_sleep_s, pa_sideloads, annotation_json,
                   annotation, sideload_tasks, pa_result>>
    /\ UNCHANGED <<pt_vars, up_vars, rq_vars, sc_vars, rl_vars, ht_vars, fc_vars, ls_vars>>

\* poll_annotation, line 1004: await asyncio.sleep(sleep_s).
poll_annotation_sleep ==
    /\ pa_pc = "sleep"
    /\ pa_pc' = "refetch"
    /\ pa_log' = [pa_log EXCEPT
                    !.events = "sleep",
                    !.trace = Push(pa_log.trace,
                                   SleepEvent(sleep_delay(pa_sleep_s, pa_log.rounds)))]
    /\ UNCHANGED <<srv_annotation, pa_predicate, pa_sleep_s, pa_sideloads, annotation_json,
                   annotation, sideload_tasks, pa_result>>
    /\ UNCHANGED <<pt_vars, up_vars, rq_vars, sc_vars, rl_vars, ht_vars, fc_vars, ls_vars>>

\* A loop body that sideloads on every round, as if it called
\* retrieve_annotation(annotation_id, sideloads): one request per sideload
\* whose URL is not None, each round.
poll_annotation_refetch_sideloading ==
    /\ pa_pc = "refetch"
    /\ annotation_json' = AnnotationJson(srv_annotation)
    /\ annotation' = deserializer("Annotation", annotation_json')
    /\ pa_log' = [LogFetch(pa_log, annotation_json') EXCEPT
                    !.requests = [i \in DOMAIN pa_sideloads |->
                                    IF annotation_json'[to_singular(pa_sideloads[i])] # None
                                    THEN pa_log.requests[i] + 1
                                    ELSE pa_log.requests[i]],
                    !.request_early =
                        \/ pa_log.request_early
                        \/ \E i \in DOMAIN pa_sideloads :
                              /\ annotation_json'[to_singular(pa_sideloads[i])] # None
                              /\ ~pa_log.pred_true]
    /\ pa_pc' = "check"
    /\ UNCHANGED <<srv_annotation, pa_predicate, pa_sleep_s, pa_sideloads, sideload_tasks, pa_result>>
    /\ UNCHANGED <<pt_vars, up_vars, rq_vars, sc_vars, rl_vars, ht_vars, fc_vars, ls_vars>>

\* poll_annotation, lines 1005-1006: fetch again and parse again.
poll_annotation_refetch ==
    /\ pa_pc = "refetch"
    /\ annotation_json' = AnnotationJson(srv_annotation)
    /\ annotation' = deserializer("Annotation", annotation_json')
    /\ pa_log' = LogFetch(pa_log, annotation_json')
    /\ pa_pc' = "check"
    /\ UNCHANGED <<srv_annotation, pa_predicate, pa_sleep_s, pa_sideloads, sideload_tasks, pa_result>>
    /\ UNCHANGED <<pt_vars, up_vars, rq_vars, sc_vars, rl_vars, ht_vars, fc_vars, ls_vars>>

\* A fetch_one that fails: the exception leaves poll_annotation.
poll_annotation_fetch_fails ==
    /\ pa_pc \in {"start", "refetch"}
    /\ pa_pc' = "raised"
    /\ UNCHANGED <<srv_annotation, pa_predicate, pa_sleep_s, pa_sideloads, annotation_json,
                   annotation, sideload_tasks, pa_result, pa_log>>
    /\ UNCHANGED <<pt_vars, up_vars, rq_vars, sc_vars, rl_vars, ht_vars, fc_vars, ls_vars>>

\* poll_annotation, lines 1008-1009, and _sideload, line 2184: with sideloads,
\* one task per sideload is created; without, the call goes on to return.
poll_annotation_after_loop ==
    /\ pa_pc = "after_loop"
    /\ IF pa_sideloads # <<>>
       THEN /\ sideload_tasks' = [i \in DOMAIN pa_sideloads |->
                                    [state |-> "created", url |-> Unset, json |-> Unset]]
            /\ pa_pc' = "gather"
       ELSE /\ sideload_tasks' = sideload_tasks
            /\ pa_pc' = "return"
    /\ UNCHANGED <<srv_annotation, pa_predicate, pa_sleep_s, pa_sideloads, annotation_json,
                   annotation, pa_result, pa_log>>
    /\ UNCHANGED <<pt_vars, up_vars, rq_vars, sc_vars, rl_vars, ht_vars, fc_vars, ls_vars>>

\* fetch_sideload, lines 2179-2182, up to its await: the URL is read from the
\* resource; a URL is requested, None is returned as it is.
fetch_sideload_start(i) ==
    /\ pa_pc = "gather"
    /\ sideload_tasks[i].state = "created"
    /\ LET sideload_url == annotation_json[to_singular(pa_sideloads[i])]
       IN  IF sideload_url # None
           THEN /\ sideload_tasks' = [sideload_tasks EXCEPT
                                        ![i] = [state |-> "in_flight", url |-> sideload_url,
                                                json |-> Unset]]
                /\ pa_log' = [pa_log EXCEPT
                                !.requests[i] = @ + 1,
                                !.request_early = @ \/ ~pa_log.pred_true]
           ELSE /\ sideload_tasks' = [sideload_tasks EXCEPT
                                        ![i] = [state |-> "done", url |-> None, json |-> None]]
                /\ pa_log' = [pa_log EXCEPT !.completed = Append(@, i)]
    /\ UNCHANGED <<srv_annotation, pa_predicate, pa_sleep_s, pa_sideloads, pa_pc, annotation_json,
                   annotation, pa_result>>
    /\ UNCHANGED <<pt_vars, up_vars, rq_vars, sc_vars, rl_vars, ht_vars, fc_vars, ls_vars>>

\* fetch_sideload, line 2181: the response of request_json arrives.
fetch_sideload_response(i) ==
    /\ pa_pc = "gather"
    /\ sideload_tasks[i].state = "in_flight"
    /\ sideload_tasks' = [sideload_tasks EXCEPT
                            ![i].state = "done",
                            ![i].json = SideloadJson(sideload_tasks[i].url)]
    /\ pa_log' = [pa_log EXCEPT !.completed = Append(@, i)]
    /\ UNCHANGED <<srv_annotation, pa_predicate, pa_sleep_s, pa_sideloads, pa_pc, annotation_json,
                   annotation, pa_result>>
    /\ UNCHANGED <<pt_vars, up_vars, rq_vars, sc_vars, rl_vars, ht_vars, fc_vars, ls_vars>>

\* fetch_sideload, line 2181: request_json raises instead.
fetch_sideload_fails(i) ==
    /\ pa_pc = "gather"
    /\ sideload_tasks[i].state = "in_flight"
    /\ sideload_tasks' = [sideload_tasks EXCEPT ![i].state = "raised"]
    /\ UNCHANGED <<srv_annotation, pa_predicate, pa_sleep_s, pa_sideloads, pa_pc, annotation_json,
                   annotation, pa_result, pa_log>>
    /\ UNCHANGED <<pt_vars, up_vars, rq_vars, sc_vars, rl_vars, ht_vars, fc_vars, ls_vars>>

\* _sideload, lines 2187-2191: the results are zipped with the sideloads and
\* written into the resource, the content one unwrapped; a JSON without the
\* 'content' key has no content to take (a KeyError).
RECURSIVE assign_sideloads(_, _, _, _)
assign_sideloads(resource, sideloads, sideloaded_jsons, i) ==
    IF i > Len(sideloads) THEN resource
    ELSE LET sideload == sideloads[i]
             fetched == sideloaded_jsons[i]
             sideloaded_json == IF fetched # None /\ sideload = "content"
                                THEN IF "content" \in DOMAIN fetched
                                     THEN fetched.content
                                     ELSE [raised |-> "KeyError"]
                                ELSE fetched
         IN  assign_sideloads([resource EXCEPT ![to_singular(sideload)] = sideloaded_json],
                              sideloads, sideloaded_jsons, i + 1)

\* A gather that gives the results in the order the tasks finished.
gathered_in_completion_order(tasks, completed) ==
    [k \in DOMAIN tasks |-> tasks[completed[k]].json]

\* asyncio.gather(*sideload_tasks), line 2185: the results of the tasks in
\* the order of the tasks, whatever the order they finished in.
gathered(tasks, completed) ==
    [i \in DOMAIN tasks |-> tasks[i].json]

\* _sideload, lines 2185-2191: gather returns once every task is done, in the
\* order of the tasks; the results are assigned.
sideload_gather ==
    /\ pa_pc = "gather"
    /\ \A i \in DOMAIN sideload_tasks : sideload_tasks[i].state = "done"
    /\ annotation_json' = assign_sideloads(annotation_json, pa_sideloads,
                                           gathered(sideload_tasks, pa_log.completed),
                                           1)
    /\ pa_pc' = "return"
    /\ UNCHANGED <<srv_annotation, pa_predicate, pa_sleep_s, pa_sideloads, annotation,
                   sideload_tasks, pa_result, pa_log>>
    /\ UNCHANGED <<pt_vars, up_vars, rq_vars, sc_vars, rl_vars, ht_vars, fc_vars, ls_vars>>

\* _sideload, line 2185: gather raises the exception of a task that raised.
sideload_gather_raises ==
    /\ pa_pc = "gather"
    /\ \E i \in DOMAIN sideload_tasks : sideload_tasks[i].state = "raised"
    /\ pa_pc' = "raised"
    /\ UNCHANGED <<srv_annotation, pa_predicate, pa_sleep_s, pa_sideloads, annotation_json,
                   annotation, sideload_tasks, pa_result, pa_log>>
    /\ UNCHANGED <<pt_vars, up_vars, rq_vars, sc_vars, rl_vars, ht_vars, fc_vars, ls_vars>>

\* poll_annotation, line 1010: the JSON is deserialized again and returned.
poll_annotation_return ==
    /\ pa_pc = "return"
    /\ pa_result' = deserializer("Annotation", annotation_json)
    /\ pa_pc' = "done"
    /\ UNCHANGED <<srv_annotation, pa_predicate, pa_sleep_s, pa_sideloads, annotation_json,
                   annotation, sideload_tasks, pa_log>>
    /\ UNCHANGED <<pt_vars, up_vars, rq_vars, sc_vars, rl_vars, ht_vars, fc_vars, ls_vars>>

\* The call retrieve_annotation(annotation_id, sideloads): the coroutine is
\* at its first statement.
pa_InitRetrieveAnnotation ==
    /\ srv_annotation \in [status : AnnotationStatuses, modified : BOOLEAN]
    /\ pa_predicate = {}
    /\ pa_sleep_s = 3
    /\ pa_sideloads \in SeqsUpTo(Sideloads, MaxSideloads)
    /\ pa_pc = "retrieve_start"
    /\ annotation_json = Unset
    /\ annotation = Unset
    /\ sideload_tasks = <<>>
    /\ pa_result = Unset
    /\ pa_log = [pa_log0 EXCEPT !.requests = [i \in DOMAIN pa_sideloads |-> 0]]

\* retrieve_annotation, line 982: the one fetch_one.  What follows it, lines
\* 983-986, is what follows the loop of poll_annotation: _sideload when
\* sideloads are asked for, and the deserializer.
retrieve_annotation_fetch ==
    /\ pa_pc = "retrieve_start"
    /\ annotation_json' = AnnotationJson(srv_annotation)
    /\ pa_log' = LogFetch(pa_log, annotation_json')
    /\ pa_pc' = "after_loop"
    /\ UNCHANGED <<srv_annotation, pa_predicate, pa_sleep_s, pa_sideloads, annotation,
                   sideload_tasks, pa_result>>
    /\ UNCHANGED <<pt_vars, up_vars, rq_vars, sc_vars, rl_vars, ht_vars, fc_vars, ls_vars>>

\* The fetch_one of retrieve_annotation raises.
retrieve_annotation_fetch_fails ==
    /\ pa_pc = "retrieve_start"
    /\ pa_pc' = "raised"
    /\ UNCHANGED <<srv_annotation, pa_predicate, pa_sleep_s, pa_sideloads, annotation_json,
                   annotation, sideload_tasks, pa_result, pa_log>>
    /\ UNCHANGED <<pt_vars, up_vars, rq_vars, sc_vars, rl_vars, ht_vars, fc_vars, ls_vars>>

RetrieveAnnotationNext ==
    \/ srv_annotation_change
    \/ retrieve_annotation_fetch
    \/ retrieve_annotation_fetch_fails
    \/ poll_annotation_after_loop
    \/ \E i \in DOMAIN sideload_tasks : fetch_sideload_start(i)
    \/ \E i \in DOMAIN sideload_tasks : fetch_sideload_response(i)
    \/ \E i \in DOMAIN sideload_tasks : fetch_sideload_fails(i)
    \/ sideload_gather
    \/ sideload_gather_raises
    \/ poll_annotation_return

PollAnnotationNext ==
    \/ srv_annotation_change
    \/ poll_annotation_fetch
    \/ poll_annotation_check
    \/ poll_annotation_sleep
    \/ poll_annotation_refetch
    \/ poll_annotation_fetch_fails
    \/ poll_annotation_after_loop
    \/ \E i \in DOMAIN sideload_tasks : fetch_sideload_start(i)
    \/ \E i \in DOMAIN sideload_tasks : fetch_sideload_response(i)
    \/ \E i \in DOMAIN sideload_tasks : fetch_sideload_fails(i)
    \/ sideload_gather
    \/ sideload_gather_raises
    \/ poll_annotation_return


-----------------------------------------------------------------------------
(* poll_task *)

TaskStatuses == {"running", "succeeded", "failed"}

\* The task JSON the server sends for GET tasks/<id>?no_redirect=True.
TaskJson(status) == [id |-> 9, status |-> status]

\* domain_logic.tasks.is_task_succeeded, the predicate of poll_task_until_succeeded.
is_task_succeeded == {"succeeded"}

pt_log0 ==
    [last_retrieved  |-> Unset,    \* the task JSON as it was last fetched
     retrieve_failed |-> FALSE,    \* a retrieve_task raised
     slept           |-> FALSE,    \* the loop body ran at least once
     rounds          |-> 0,        \* 0: no retrieval, 1: one, 2: more than one
     trace           |-> <<>>]     \* the last retrievals and sleeps, in order

pt_Idle ==
    /\ srv_task = "running"
    /\ pt_predicate = {}
    /\ pt_sleep_s = 3
    /\ pt_pc = "idle"
    /\ task = Unset
    /\ pt_result = Unset
    /\ pt_log = pt_log0

pt_Init ==
    /\ srv_task \in TaskStatuses
    /\ pt_predicate \in SUBSET TaskStatuses
    /\ pt_sleep_s \in SleepSeconds
    /\ pt_pc = "start"
    /\ task = Unset
    /\ pt_result = Unset
    /\ pt_log = pt_log0

\* The environment: the task changes its status.
srv_task_change ==
    /\ pt_pc \notin {"idle", "done", "raised"}
    /\ \E s \in TaskStatuses \ {srv_task} : srv_task' = s
    /\ UNCHANGED <<pt_predicate, pt_sleep_s, pt_pc, task, pt_result, pt_log>>
    /\ UNCHANGED <<pa_vars, up_vars, rq_vars, sc_vars, rl_vars, ht_vars, fc_vars, ls_vars>>

\* retrieve_task, lines 1051-1055: fetch_one and the deserializer.
retrieve_task(status) == deserializer("Task", TaskJson(status))

\* poll_task, line 1025: the first retrieve_task.
poll_task_retrieve ==
    /\ pt_pc = "start"
    /\ task' = retrieve_task(srv_task)
    /\ pt_log' = [pt_log EXCEPT
                    !.last_retrieved = TaskJson(srv_task),
                    !.rounds = IF pt_log.rounds = 0 THEN 1 ELSE 2,
                    !.trace = Push(pt_log.trace, FetchEvent)]
    /\ pt_pc' = "check"
    /\ UNCHANGED <<srv_task, pt_predicate, pt_sleep_s, pt_result>>
    /\ UNCHANGED <<pa_vars, up_vars, rq_vars, sc_vars, rl_vars, ht_vars, fc_vars, ls_vars>>

\* poll_task, line 1027: the loop condition.
poll_task_check ==
    /\ pt_pc = "check"
    /\ pt_pc' = IF predicate(pt_predicate, task) THEN "return" ELSE "sleep"
    /\ UNCHANGED <<srv_task, pt_predicate, pt_sleep_s, task, pt_result, pt_log>>
    /\ UNCHANGED <<pa_vars, up_vars, rq_vars, sc_vars, rl_vars, ht_vars, fc_vars, ls_vars>>

\* A loop with a retry limit of one round: after the sleep it gives up and
\* returns the task it has.
poll_task_sleep_gives_up ==
    /\ pt_pc = "sleep"
    /\ pt_pc' = "return"
    /\ pt_log' = [pt_log EXCEPT
                    !.slept = TRUE,
                    !.trace = Push(pt_log.trace,
                                   SleepEvent(sleep_delay(pt_sleep_s, pt_log.rounds)))]
    /\ UNCHANGED <<srv_task, pt_predicate, pt_sleep_s, task, pt_result>>
    /\ UNCHANGED <<pa_vars, up_vars, rq_vars, sc_vars, rl_vars, ht_vars, fc_vars, ls_vars>>

\* poll_task, line 1028: await asyncio.sleep(sleep_s).
poll_task_sleep ==
    /\ pt_pc = "sleep"
    /\ pt_pc' = "retrieve"
    /\ pt_log' = [pt_log EXCEPT
                    !.slept = TRUE,
                    !.trace = Push(pt_log.trace,
                                   SleepEvent(sleep_delay(pt_sleep_s, pt_log.rounds)))]
    /\ UNCHANGED <<srv_task, pt_predicate, pt_sleep_s, task, pt_result>>
    /\ UNCHANGED <<pa_vars, up_vars, rq_vars, sc_vars, rl_vars, ht_vars, fc_vars, ls_vars>>

\* poll_task, line 1029: retrieve_task again.
poll_task_retrieve_again ==
    /\ pt_pc = "retrieve"
    /\ task' = retrieve_task(srv_task)
    /\ pt_log' = [pt_log EXCEPT
                    !.last_retrieved = TaskJson(srv_task),
                    !.rounds = IF pt_log.rounds = 0 THEN 1 ELSE 2,
                    !.trace = Push(pt_log.trace, FetchEvent)]
    /\ pt_pc' = "check"
    /\ UNCHANGED <<srv_task, pt_predicate, pt_sleep_s, pt_result>>
    /\ UNCHANGED <<pa_vars, up_vars, rq_vars, sc_vars, rl_vars, ht_vars, fc_vars, ls_vars>>

\* A retrieve_task that raises: the exception leaves poll_task.
poll_task_retrieve_fails ==
    /\ pt_pc \in {"start", "retrieve"}
    /\ pt_pc' = "raised"
    /\ pt_log' = [pt_log EXCEPT !.retrieve_failed = TRUE]
    /\ UNCHANGED <<srv_task, pt_predicate, pt_sleep_s, task, pt_result>>
    /\ UNCHANGED <<pa_vars, up_vars, rq_vars, sc_vars, rl_vars, ht_vars, fc_vars, ls_vars>>

\* poll_task, line 1031: return task.
poll_task_return ==
    /\ pt_pc = "return"
    /\ pt_result' = task
    /\ pt_pc' = "done"
    /\ UNCHANGED <<srv_task, pt_predicate, pt_sleep_s, task, pt_log>>
    /\ UNCHANGED <<pa_vars, up_vars, rq_vars, sc_vars, rl_vars, ht_vars, fc_vars, ls_vars>>

\* The steps of the poll_task coroutine that the event loop runs when they
\* are ready: a sleep ends, a response arrives, the coroutine goes on.
PollTaskSteps ==
    \/ poll_task_retrieve
    \/ poll_task_check
    \/ poll_task_sleep
    \/ poll_task_retrieve_again
    \/ poll_task_return

PollTaskNext ==
    \/ srv_task_change
    \/ poll_task_retrieve
    \/ poll_task_check
    \/ poll_task_sleep
    \/ poll_task_retrieve_again
    \/ poll_task_retrieve_fails
    \/ poll_task_return


-----------------------------------------------------------------------------
(* import_document and upload_document *)

\* The (file, filename) pairs a caller may pass.
FilePairs == {<<"a.pdf", "A">>, <<"b.pdf", "B">>}

\* What reading the open file gives.
FileContent(file) == [bytes_of |-> file]

\* int(<last path segment>) for the ids the model's server hands out.
ParseInt(segment) == CHOOSE n \in 0..400 : ToString(n) = segment

\* domain_logic.urls.parse_resource_id_from_url: the integer in the last
\* segment of the URL's path.
parse_resource_id_from_url(url) == ParseInt(url.path[Len(url.path)])

\* The id the server gives to the annotation (Upload API) or the task (uploads
\* endpoint) created by its n-th upload request.
AnnotationIdOf(n) == 100 + n
TaskIdOf(n) == 200 + n

\* A task: its position, its file, the number of its request at the server,
\* the response its request got, its result, and whether it finished after
\* the call had raised.
up_task0 ==
    [state |-> "created", fp |-> "none", sent |-> 0, response |-> Unset, result |-> Unset,
     late |-> FALSE]

up_Idle ==
    /\ up_op = "none"
    /\ up_files = <<>>
    /\ up_args = Unset
    /\ up_pc = "idle"
    /\ upload_tasks = <<>>
    /\ up_completed = <<>>
    /\ srv_uploads = <<>>
    /\ up_result = Unset

up_Init ==
    /\ up_op \in {"import_document", "upload_document"}
    /\ up_files \in SeqsUpTo(FilePairs, MaxFiles)
    /\ up_args \in [queue_id : {3}, values : {None, [v |-> "x"]},
                    metadata : {None, [m |-> "y"]}]
    /\ up_pc = "start"
    /\ upload_tasks = <<>>
    /\ up_completed = <<>>
    /\ srv_uploads = <<>>
    /\ up_result = Unset

\* import_document, lines 336-339, and upload_document, lines 390-393: one
\* task per (file, filename) pair, in the order of `files`.
create_tasks ==
    /\ up_pc = "start"
    /\ upload_tasks' = [i \in DOMAIN up_files |-> up_task0]
    /\ up_pc' = "gather"
    /\ UNCHANGED <<up_op, up_files, up_args, up_completed, srv_uploads, up_result>>
    /\ UNCHANGED <<pa_vars, pt_vars, rq_vars, sc_vars, rl_vars, ht_vars, fc_vars, ls_vars>>

\* _upload, line 355, and _create_upload, line 409: the file is opened.
upload_open(i) ==
    /\ upload_tasks[i].state = "created"
    /\ upload_tasks' = [upload_tasks EXCEPT ![i].state = "opened", ![i].fp = "open"]
    /\ UNCHANGED <<up_op, up_files, up_args, up_pc, up_completed, srv_uploads, up_result>>
    /\ UNCHANGED <<pa_vars, pt_vars, rq_vars, sc_vars, rl_vars, ht_vars, fc_vars, ls_vars>>

\* The multipart body of _create_upload, lines 411-416: the content always,
\* values and metadata only when given.
upload_body(filename, content, values, metadata) ==
    [content |-> <<filename, content>>, values |-> values, metadata |-> metadata]

\* _upload, lines 356-358, and _create_upload, lines 410-418: the request
\* with the file's content is sent; the server creates the annotation, or the
\* task, on its arrival.
upload_request(i) ==
    /\ upload_tasks[i].state = "opened"
    /\ srv_uploads' = Append(srv_uploads,
                             [queue |-> up_args.queue_id,
                              body  |-> upload_body(up_files[i][2],
                                                    FileContent(up_files[i][1]),
                                                    up_args.values, up_args.metadata)])
    /\ upload_tasks' = [upload_tasks EXCEPT ![i].state = "in_flight",
                                            ![i].sent = Len(srv_uploads')]
    /\ UNCHANGED <<up_op, up_files, up_args, up_pc, up_completed, up_result>>
    /\ UNCHANGED <<pa_vars, pt_vars, rq_vars, sc_vars, rl_vars, ht_vars, fc_vars, ls_vars>>

\* The response to the n-th upload request of the Upload API, with k results.
ImportResponse(n, k) ==
    [results |-> [j \in 1..k |->
                    [annotation |-> Url(<<"annotations", ToString(AnnotationIdOf(n))>>)]]]

\* An unpacking that takes the first result and ignores the others.
unpack_first_result(results) ==
    IF Len(results.results) >= 1
    THEN [raised |-> FALSE,
          value  |-> parse_resource_id_from_url(results.results[1].annotation)]
    ELSE [raised |-> TRUE, value |-> Unset]

\* _upload, lines 359-360: `(result,) = results["results"]` unpacks exactly
\* one result and raises for any other number; the id is parsed from it.
unpack_result(results) ==
    IF Len(results.results) = 1
    THEN [raised |-> FALSE,
          value  |-> parse_resource_id_from_url(results.results[1].annotation)]
    ELSE [raised |-> TRUE, value |-> Unset]

\* _upload, lines 356-360: the response arrives; leaving the `async with`
\* closes the file, on return and on raise.
upload_response(i, k) ==
    /\ up_op = "import_document"
    /\ upload_tasks[i].state = "in_flight"
    /\ LET results == ImportResponse(upload_tasks[i].sent, k)
           r == unpack_result(results)
       IN  upload_tasks' = [upload_tasks EXCEPT
                              ![i].state = IF r.raised THEN "raised" ELSE "done",
                              ![i].fp = "closed",
                              ![i].response = results,
                              ![i].result = r.value,
                              ![i].late = (up_pc = "raised")]
    /\ up_completed' = Append(up_completed, i)
    /\ UNCHANGED <<up_op, up_files, up_args, up_pc, srv_uploads, up_result>>
    /\ UNCHANGED <<pa_vars, pt_vars, rq_vars, sc_vars, rl_vars, ht_vars, fc_vars, ls_vars>>

\* _create_upload, lines 418-421: the response of the POST names the task;
\* its id is parsed and retrieve_task is awaited.
create_upload_response(i) ==
    /\ up_op = "upload_document"
    /\ upload_tasks[i].state = "in_flight"
    /\ LET task_url == [url |-> Url(<<"tasks", ToString(TaskIdOf(upload_tasks[i].sent))>>)]
           task_id == parse_resource_id_from_url(task_url.url)
       IN  upload_tasks' = [upload_tasks EXCEPT ![i].state = "retrieving",
                                                ![i].result = task_id]
    /\ UNCHANGED <<up_op, up_files, up_args, up_pc, up_completed, srv_uploads, up_result>>
    /\ UNCHANGED <<pa_vars, pt_vars, rq_vars, sc_vars, rl_vars, ht_vars, fc_vars, ls_vars>>

\* _create_upload, line 421: retrieve_task returns the Task, which the
\* coroutine returns; the file is closed.
create_upload_retrieved(i) ==
    /\ up_op = "upload_document"
    /\ upload_tasks[i].state = "retrieving"
    /\ upload_tasks' = [upload_tasks EXCEPT
                          ![i].state = "done",
                          ![i].fp = "closed",
                          ![i].result = deserializer("Task",
                                                     [id |-> upload_tasks[i].result,
                                                      status |-> "running"]),
                          ![i].late = (up_pc = "raised")]
    /\ up_completed' = Append(up_completed, i)
    /\ UNCHANGED <<up_op, up_files, up_args, up_pc, srv_uploads, up_result>>
    /\ UNCHANGED <<pa_vars, pt_vars, rq_vars, sc_vars, rl_vars, ht_vars, fc_vars, ls_vars>>

\* A request of the upload coroutine raises (the POST, or retrieve_task): the
\* exception leaves the `async with`, which closes the file.
upload_fails(i) ==
    /\ upload_tasks[i].state \in {"in_flight", "retrieving"}
    /\ upload_tasks' = [upload_tasks EXCEPT ![i].state = "raised", ![i].fp = "closed",
                                            ![i].result = Unset,
                                            ![i].late = (up_pc = "raised")]
    /\ up_completed' = Append(up_completed, i)
    /\ UNCHANGED <<up_op, up_files, up_args, up_pc, srv_uploads, up_result>>
    /\ UNCHANGED <<pa_vars, pt_vars, rq_vars, sc_vars, rl_vars, ht_vars, fc_vars, ls_vars>>

\* A fan-out that collects the results as the tasks complete.
results_as_completed(tasks, completed) ==
    [k \in DOMAIN tasks |-> tasks[completed[k]].result]

\* asyncio.gather(*tasks): the results in the order of the awaitables.
gather_results(tasks, completed) ==
    [k \in DOMAIN tasks |-> tasks[k].result]

\* import_document, line 341, and upload_document, line 395: every task has
\* returned; the list of their results is returned.
gather_returns ==
    /\ up_pc = "gather"
    /\ \A i \in DOMAIN upload_tasks : upload_tasks[i].state = "done"
    /\ up_result' = gather_results(upload_tasks, up_completed)
    /\ up_pc' = "done"
    /\ UNCHANGED <<up_op, up_files, up_args, upload_tasks, up_completed, srv_uploads>>
    /\ UNCHANGED <<pa_vars, pt_vars, rq_vars, sc_vars, rl_vars, ht_vars, fc_vars, ls_vars>>

\* A gather that cancels the tasks still running when one has raised: their
\* files are closed and they make no further request.
gather_raises_cancelling ==
    /\ up_pc = "gather"
    /\ \E i \in DOMAIN upload_tasks : upload_tasks[i].state = "raised"
    /\ up_pc' = "raised"
    /\ upload_tasks' = [i \in DOMAIN upload_tasks |->
                          IF upload_tasks[i].state \in {"done", "raised"}
                          THEN upload_tasks[i]
                          ELSE [upload_tasks[i] EXCEPT !.state = "cancelled",
                                                       !.fp = "closed"]]
    /\ UNCHANGED <<up_op, up_files, up_args, up_completed, srv_uploads, up_result>>
    /\ UNCHANGED <<pa_vars, pt_vars, rq_vars, sc_vars, rl_vars, ht_vars, fc_vars, ls_vars>>

\* import_document, line 341, and upload_document, line 395: a task has
\* raised; gather raises its exception at once and cancels nothing.
gather_raises ==
    /\ up_pc = "gather"
    /\ \E i \in DOMAIN upload_tasks : upload_tasks[i].state = "raised"
    /\ up_pc' = "raised"
    /\ UNCHANGED <<up_op, up_files, up_args, upload_tasks, up_completed, srv_uploads,
                   up_result>>
    /\ UNCHANGED <<pa_vars, pt_vars, rq_vars, sc_vars, rl_vars, ht_vars, fc_vars, ls_vars>>

UploadNext ==
    \/ create_tasks
    \/ \E i \in DOMAIN upload_tasks : upload_open(i)
    \/ \E i \in DOMAIN upload_tasks : upload_request(i)
    \/ \E i \in DOMAIN upload_tasks : \E k \in 0..2 : upload_response(i, k)
    \/ \E i \in DOMAIN upload_tasks : create_upload_response(i)
    \/ \E i \in DOMAIN upload_tasks : create_upload_retrieved(i)
    \/ \E i \in DOMAIN upload_tasks : upload_fails(i)
    \/ gather_returns
    \/ gather_raises

-----------------------------------------------------------------------------
(* The construction of the client and the retrying transport *)

\* The defaults of AsyncRossumAPIClient.__init__.
n_retries_default == 3
retry_backoff_factor_default == 1
retry_max_jitter_default == 1
max_in_flight_requests_default == 4

rq_Idle ==
    /\ client_args = Unset
    /\ http_client = Unset
    /\ rq_pc = "idle"
    /\ rq_retries = 0
    /\ rq_failure = "none"
    /\ rq_delay = 0
    /\ rq_count = 0

\* The caller gives n_retries or leaves it to the default.
rq_Init ==
    /\ client_args \in {[n_retries_given |-> FALSE, n_retries |-> n_retries_default]}
                        \cup [n_retries_given : {TRUE}, n_retries : 0..MaxNRetries]
    /\ http_client = Unset
    /\ rq_pc = "new"
    /\ rq_retries = 0
    /\ rq_failure = "none"
    /\ rq_delay = 0
    /\ rq_count = 0

\* A constructor that does not hand n_retries on: the transport keeps a
\* default of its own.
InternalAsyncClient_args_without_n_retries(n_retries) ==
    [n_retries              |-> n_retries_default,
     retry_backoff_factor   |-> retry_backoff_factor_default,
     retry_max_jitter       |-> retry_max_jitter_default,
     max_in_flight_requests |-> max_in_flight_requests_default]

\* __init__, lines 186-197: the keyword arguments InternalAsyncClient gets.
InternalAsyncClient_args(n_retries) ==
    [n_retries              |-> n_retries,
     retry_backoff_factor   |-> retry_backoff_factor_default,
     retry_max_jitter       |-> retry_max_jitter_default,
     max_in_flight_requests |-> max_in_flight_requests_default]

\* AsyncRossumAPIClient.__init__, lines 164-200.
client_init ==
    /\ rq_pc = "new"
    /\ http_client' = InternalAsyncClient_args(client_args.n_retries)
    /\ rq_pc' = "ready"
    /\ UNCHANGED <<client_args, rq_retries, rq_failure, rq_delay, rq_count>>
    /\ UNCHANGED <<pa_vars, pt_vars, up_vars, sc_vars, rl_vars, ht_vars, fc_vars, ls_vars>>

\* A request enters the retry wrapper: the first attempt is sent.
request_start ==
    /\ rq_pc \in {"ready", "ok", "raised"}
    /\ rq_count < MaxRequests
    /\ rq_pc' = "attempt"
    /\ rq_retries' = 0
    /\ rq_failure' = "none"
    /\ rq_delay' = 0
    /\ UNCHANGED <<client_args, http_client, rq_count>>
    /\ UNCHANGED <<pa_vars, pt_vars, up_vars, sc_vars, rl_vars, ht_vars, fc_vars, ls_vars>>

\* The attempt succeeds: the response is returned.
attempt_succeeds ==
    /\ rq_pc = "attempt"
    /\ rq_pc' = "ok"
    /\ rq_failure' = "none"
    /\ rq_count' = rq_count + 1
    /\ UNCHANGED <<client_args, http_client, rq_retries, rq_delay>>
    /\ UNCHANGED <<pa_vars, pt_vars, up_vars, sc_vars, rl_vars, ht_vars, fc_vars, ls_vars>>

RECURSIVE Pow2(_)
Pow2(n) == IF n = 0 THEN 1 ELSE 2 * Pow2(n - 1)

\* The delay before retry number `retry` (1, 2, ...): exponential in the
\* number of the retry, times the backoff factor, plus the jitter drawn.
backoff_delay(retry, jitter) ==
    http_client.retry_backoff_factor * Pow2(retry - 1) + jitter

\* The attempt fails with a transient failure: it is retried after a delay
\* while fewer than n_retries retries were made, and raised otherwise.
attempt_fails_transiently ==
    /\ rq_pc = "attempt"
    /\ rq_failure' = "transient"
    /\ IF rq_retries < http_client.n_retries
       THEN /\ rq_pc' = "backoff"
            /\ \E jitter \in 0..http_client.retry_max_jitter :
                  rq_delay' = backoff_delay(rq_retries + 1, jitter)
            /\ rq_count' = rq_count
       ELSE /\ rq_pc' = "raised"
            /\ rq_delay' = rq_delay
            /\ rq_count' = rq_count + 1
    /\ UNCHANGED <<client_args, http_client, rq_retries>>
    /\ UNCHANGED <<pa_vars, pt_vars, up_vars, sc_vars, rl_vars, ht_vars, fc_vars, ls_vars>>

\* The attempt fails with a failure that is not transient: raised at once.
attempt_fails_for_good ==
    /\ rq_pc = "attempt"
    /\ rq_failure' = "permanent"
    /\ rq_pc' = "raised"
    /\ rq_count' = rq_count + 1
    /\ UNCHANGED <<client_args, http_client, rq_retries, rq_delay>>
    /\ UNCHANGED <<pa_vars, pt_vars, up_vars, sc_vars, rl_vars, ht_vars, fc_vars, ls_vars>>

\* The delay is over: the request is sent again.
retry_after_backoff ==
    /\ rq_pc = "backoff"
    /\ rq_pc' = "attempt"
    /\ rq_retries' = rq_retries + 1
    /\ UNCHANGED <<client_args, http_client, rq_failure, rq_delay, rq_count>>
    /\ UNCHANGED <<pa_vars, pt_vars, up_vars, sc_vars, rl_vars, ht_vars, fc_vars, ls_vars>>

RetryNext ==
    \/ client_init
    \/ request_start
    \/ attempt_succeeds
    \/ attempt_fails_transiently
    \/ attempt_fails_for_good
    \/ retry_after_backoff

-----------------------------------------------------------------------------
(* The schema tree: rossum_api.models.schema *)

(* A node is a record of its class and of the fields the methods read: id,   *)
(* type (Datapoint), children, category.  The other fields of the data       *)
(* classes are plain values with defaults, copied as they are.  The identity *)
(* of a node object is its place in the tree, a path of child indexes.       *)

Ids == {"a", "b"}
Types == {"string", "button"}
Categories == {"datapoint", "multivalue", "tuple", "section"}

\* The default of the `category` field of each class (lines 93, 183, 259, 315).
default_category(cls) ==
    CASE cls = "Datapoint"  -> "datapoint"
      [] cls = "Multivalue" -> "multivalue"
      [] cls = "Tuple"      -> "tuple"
      [] cls = "Section"    -> "section"

\* The constructors.
Datapoint(id, type, category) ==
    [cls |-> "Datapoint", id |-> id, type |-> type, category |-> category]
Multivalue(id, children, category) ==
    [cls |-> "Multivalue", id |-> id, children |-> children, category |-> category]
Tuple(id, children, category) ==
    [cls |-> "Tuple", id |-> id, children |-> children, category |-> category]
Section(id, children, category) ==
    [cls |-> "Section", id |-> id, children |-> children, category |-> category]
Schema(id, content) ==
    [cls |-> "Schema", id |-> id, content |-> content]

\* The categories a caller gives to the nodes it constructs: the defaults.
DefaultCategories == [cls \in {"Datapoint", "Multivalue", "Tuple", "Section"} |->
                        {default_category(cls)}]

\* The well-typed trees of exactly n nodes, the categories taken from cats.
\* The types of the datapoints of a schema whose fields are listed
\* (Datapoint.type is any string).
FieldTypes == Types \cup {"formula", "reasoning"}

\* The types a caller gives to its datapoints: those of cats, if it names any.
TypesOf(cats) == IF "types" \in DOMAIN cats THEN cats["types"] ELSE Types

DatapointsOf(cats) ==
    {Datapoint(id, type, c) : id \in Ids, type \in TypesOf(cats), c \in cats["Datapoint"]}

TuplesOf(n, cats) ==
    IF n < 1 THEN {}
    ELSE {Tuple(id, ch, c) : id \in Ids, ch \in [1..(n - 1) -> DatapointsOf(cats)],
                             c \in cats["Tuple"]}

MultivaluesOf(n, cats) ==
    IF n < 2 THEN {}
    ELSE {Multivalue(id, ch, c) :
            id \in Ids,
            ch \in (IF n = 2 THEN DatapointsOf(cats) ELSE {}) \cup TuplesOf(n - 1, cats),
            c \in cats["Multivalue"]}

ItemsOf(n, cats) ==
    (IF n = 1 THEN DatapointsOf(cats) ELSE {}) \cup TuplesOf(n, cats)
        \cup MultivaluesOf(n, cats)

\* The lists of items of n nodes in all, the first item of k nodes or more.
RECURSIVE ItemSeqsOf(_, _)
RECURSIVE ItemSeqsFrom(_, _, _)
ItemSeqsFrom(k, n, cats) ==
    IF k > n THEN {}
    ELSE {<<x>> \o rest : x \in ItemsOf(k, cats), rest \in ItemSeqsOf(n - k, cats)}
            \cup ItemSeqsFrom(k + 1, n, cats)

ItemSeqsOf(n, cats) ==
    IF n = 0 THEN {<<>>} ELSE ItemSeqsFrom(1, n, cats)

SectionsOf(n, cats) ==
    IF n < 1 THEN {}
    ELSE {Section(id, ch, c) : id \in Ids, ch \in ItemSeqsOf(n - 1, cats),
                               c \in cats["Section"]}

\* The lists of sections of n nodes in all, the first section of k nodes or more.
RECURSIVE SectionSeqsOf(_, _)
RECURSIVE SectionSeqsFrom(_, _, _)
SectionSeqsFrom(k, n, cats) ==
    IF k > n THEN {}
    ELSE {<<x>> \o rest : x \in SectionsOf(k, cats), rest \in SectionSeqsOf(n - k, cats)}
            \cup SectionSeqsFrom(k + 1, n, cats)

SectionSeqsOf(n, cats) ==
    IF n = 0 THEN {<<>>} ELSE SectionSeqsFrom(1, n, cats)

RECURSIVE SectionSeqsUpTo(_, _)
SectionSeqsUpTo(n, cats) ==
    IF n = 0 THEN SectionSeqsOf(0, cats)
    ELSE SectionSeqsOf(n, cats) \cup SectionSeqsUpTo(n - 1, cats)

SchemasUpTo(n, cats) ==
    {Schema(1, content) : content \in SectionSeqsUpTo(n, cats)}

\* getattr(obj, name, default)
getattr(obj, name, default) == IF name \in DOMAIN obj THEN obj[name] ELSE default

\* A parent property that gives the class that holds a datapoint.
Node_parent_of_datapoint(self) == IF self.cls = "Datapoint" THEN [cls |-> "Section"] ELSE None

\* Node.parent, lines 18-21: the attribute _parent, which no constructor and
\* no method sets.
Node_parent(self) == getattr(self, "_parent", None)

\* Datapoint.is_button, lines 111-113.
is_button(self) == self.type = "button"

\* Datapoint.is_formula that takes a reasoning datapoint for a formula too.
is_formula_or_reasoning(self) == self.type \in {"formula", "reasoning"}

\* Datapoint.is_formula, lines 115-117.
is_formula(self) == self.type = "formula"

\* Datapoint.is_reasoning, lines 119-121.
is_reasoning(self) == self.type = "reasoning"

\* One item a traversal yields: the node object, which is the node at a place.
Yield(at, node) == [at |-> at, node |-> node]

RECURSIVE Flatten(_)
Flatten(seqs) == IF seqs = <<>> THEN <<>> ELSE Head(seqs) \o Flatten(Tail(seqs))

\* Datapoint.traverse that forgets the ignore_buttons test.
Datapoint_traverse_all(self, at, ignore_buttons) == <<Yield(at, self)>>

\* Datapoint.traverse, lines 123-133.
Datapoint_traverse(self, at, ignore_buttons) ==
    IF ignore_buttons /\ is_button(self) THEN <<>> ELSE <<Yield(at, self)>>

\* Tuple.traverse that does not descend into its children.
Tuple_traverse_self_only(self, at, ignore_buttons) == <<Yield(at, self)>>

\* Tuple.traverse, lines 265-275.  Its children are datapoints.
Tuple_traverse(self, at, ignore_buttons) ==
    <<Yield(at, self)>>
        \o Flatten([i \in DOMAIN self.children |->
                      Datapoint_traverse(self.children[i], Append(at, i), ignore_buttons)])

\* child.traverse(...) for the child of a multivalue: a datapoint or a tuple.
child_traverse(child, at, ignore_buttons) ==
    IF child.cls = "Tuple" THEN Tuple_traverse(child, at, ignore_buttons)
    ELSE Datapoint_traverse(child, at, ignore_buttons)

\* Multivalue.traverse that yields the multivalue after its children.
Multivalue_traverse_children_first(self, at, ignore_buttons) ==
    child_traverse(self.children, Append(at, 1), ignore_buttons) \o <<Yield(at, self)>>

\* Multivalue.traverse, lines 192-201.
Multivalue_traverse(self, at, ignore_buttons) ==
    <<Yield(at, self)>> \o child_traverse(self.children, Append(at, 1), ignore_buttons)

\* child.traverse(...) for the child of a section, by the class of the child.
node_traverse(child, at, ignore_buttons) ==
    IF child.cls = "Multivalue" THEN Multivalue_traverse(child, at, ignore_buttons)
    ELSE child_traverse(child, at, ignore_buttons)

\* Section.traverse, lines 319-328: the sub-nodes, not the section.
Section_traverse(self, at, ignore_buttons) ==
    Flatten([i \in DOMAIN self.children |->
               node_traverse(self.children[i], Append(at, i), ignore_buttons)])

\* Schema.traverse, lines 395-404.
Schema_traverse(self, ignore_buttons) ==
    Flatten([i \in DOMAIN self.content |->
               Section_traverse(self.content[i], <<i>>, ignore_buttons)])

\* The first item of a list of yielded items whose node has the id, or None.
RECURSIVE first_with_id(_, _)
first_with_id(items, node_id) ==
    IF items = <<>> THEN None
    ELSE IF Head(items).node.id = node_id THEN Head(items)
    ELSE first_with_id(Tail(items), node_id)

\* Schema.get_by_id that does not hand ignore_buttons on to traverse.
Schema_get_by_id_default_traverse(self, node_id, ignore_buttons) ==
    first_with_id(Schema_traverse(self, TRUE), node_id)

\* Schema.get_by_id, lines 406-425.
Schema_get_by_id(self, node_id, ignore_buttons) ==
    first_with_id(Schema_traverse(self, ignore_buttons), node_id)

\* Schema.formula_fields, lines 427-441.
Schema_formula_fields(self, ignore_buttons) ==
    SelectSeq(Schema_traverse(self, ignore_buttons),
              LAMBDA x : x.node.cls = "Datapoint" /\ is_formula(x.node))

\* Schema.reasoning_fields, lines 443-457.
Schema_reasoning_fields(self, ignore_buttons) ==
    SelectSeq(Schema_traverse(self, ignore_buttons),
              LAMBDA x : x.node.cls = "Datapoint" /\ is_reasoning(x.node))

sc_Idle ==
    /\ schema = Unset
    /\ sc_call = [op |-> "none"]
    /\ sc_result = Unset

\* A schema a caller has constructed; no method was called yet.
sc_Init ==
    /\ schema \in SchemasUpTo(MaxNodes, DefaultCategories)
    /\ sc_call = [op |-> "none"]
    /\ sc_result = Unset

\* list(schema.traverse(ignore_buttons)); ignore_buttons is True by default.
call_traverse(ignore_buttons) ==
    /\ schema # Unset
    /\ sc_call' = [op |-> "traverse", ignore_buttons |-> ignore_buttons]
    /\ sc_result' = Schema_traverse(schema, ignore_buttons)
    /\ UNCHANGED schema
    /\ UNCHANGED <<pa_vars, pt_vars, up_vars, rq_vars, rl_vars, ht_vars, fc_vars, ls_vars>>

\* schema.get_by_id(node_id, ignore_buttons); ignore_buttons is True by default.
call_get_by_id(node_id, ignore_buttons) ==
    /\ schema # Unset
    /\ sc_call' = [op |-> "get_by_id", node_id |-> node_id,
                   ignore_buttons |-> ignore_buttons]
    /\ sc_result' = Schema_get_by_id(schema, node_id, ignore_buttons)
    /\ UNCHANGED schema
    /\ UNCHANGED <<pa_vars, pt_vars, up_vars, rq_vars, rl_vars, ht_vars, fc_vars, ls_vars>>

TraverseNext ==
    \/ \E ignore_buttons \in BOOLEAN : call_traverse(ignore_buttons)
    \/ \E node_id \in Ids, ignore_buttons \in BOOLEAN : call_get_by_id(node_id, ignore_buttons)

\* The categories are the defaults; the types include formula and reasoning.
FieldCategories ==
    [k \in DOMAIN DefaultCategories \cup {"types"} |->
        IF k = "types" THEN FieldTypes ELSE DefaultCategories[k]]

\* A schema a caller has constructed, with formula and reasoning datapoints.
fields_Init ==
    /\ schema \in SchemasUpTo(MaxFieldNodes, FieldCategories)
    /\ sc_call = [op |-> "none"]
    /\ sc_result = Unset

\* list(schema.formula_fields(ignore_buttons))
call_formula_fields(ignore_buttons) ==
    /\ schema # Unset
    /\ sc_call' = [op |-> "formula_fields", ignore_buttons |-> ignore_buttons]
    /\ sc_result' = Schema_formula_fields(schema, ignore_buttons)
    /\ UNCHANGED schema
    /\ UNCHANGED <<pa_vars, pt_vars, up_vars, rq_vars, rl_vars, ht_vars, fc_vars, ls_vars>>

\* list(schema.reasoning_fields(ignore_buttons))
call_reasoning_fields(ignore_buttons) ==
    /\ schema # Unset
    /\ sc_call' = [op |-> "reasoning_fields", ignore_buttons |-> ignore_buttons]
    /\ sc_result' = Schema_reasoning_fields(schema, ignore_buttons)
    /\ UNCHANGED schema
    /\ UNCHANGED <<pa_vars, pt_vars, up_vars, rq_vars, rl_vars, ht_vars, fc_vars, ls_vars>>

FieldsNext ==
    \/ \E ignore_buttons \in BOOLEAN : call_formula_fields(ignore_buttons)
    \/ \E ignore_buttons \in BOOLEAN : call_reasoning_fields(ignore_buttons)

-----------------------------------------------------------------------------
(* The serialization of the schema tree: dataclasses.asdict and from_dict *)

(* A dict is a record of its keys; a missing key is a missing field.  A list *)
(* of a dict is the record JList(items), so that a value can be asked        *)
(* whether it is a dict, a list, None or an object.  An exception a call     *)
(* raises is the record Raised(kind), returned in place of the result.       *)

JList(items) == [list |-> items]
IsList(v) == "list" \in DOMAIN v
IsNone(v) == "none" \in DOMAIN v
IsObject(v) == "cls" \in DOMAIN v
IsDict(v) == ~IsList(v) /\ ~IsNone(v) /\ ~IsObject(v)

Raised(kind) == [raised |-> kind]
IsRaised(v) == "raised" \in DOMAIN v

\* The first exception among the results of a comprehension, if any.
AnyRaised(results) == \E i \in DOMAIN results : IsRaised(results[i])
FirstRaised(results) ==
    results[CHOOSE i \in DOMAIN results :
              IsRaised(results[i]) /\ \A j \in 1..(i - 1) : ~IsRaised(results[j])]

\* data.get(key, default)
get(data, key, default) == IF key \in DOMAIN data THEN data[key] ELSE default

\* data[key] = value
put(data, key, value) ==
    [k \in DOMAIN data \cup {key} |-> IF k = key THEN value ELSE data[k]]

\* Datapoint.type is `str | None`, None by default.
no_type == "None"

\* dataclasses.asdict(obj): every field of the data class under its name, the
\* data classes and the lists within converted likewise.
RECURSIVE asdict(_)
asdict(obj) ==
    CASE obj.cls = "Datapoint" ->
           [id |-> obj.id, type |-> obj.type, category |-> obj.category]
      [] obj.cls = "Multivalue" ->
           [id |-> obj.id, children |-> asdict(obj.children), category |-> obj.category]
      [] obj.cls \in {"Tuple", "Section"} ->
           [id |-> obj.id,
            children |-> JList([i \in DOMAIN obj.children |-> asdict(obj.children[i])]),
            category |-> obj.category]
      [] obj.cls = "Schema" ->
           [id |-> obj.id,
            content |-> JList([i \in DOMAIN obj.content |-> asdict(obj.content[i])])]

\* The types of the fields that hold nodes.
children_type(cls) ==
    CASE cls = "Multivalue" -> [union |-> <<"Datapoint", "Tuple">>]
      [] cls = "Tuple"      -> [list_of |-> [union |-> <<"Datapoint">>]]
      [] cls = "Section"    -> [list_of |-> [union |-> <<"Datapoint", "Multivalue", "Tuple">>]]
      [] cls = "Schema"     -> [list_of |-> [union |-> <<"Section">>]]

RECURSIVE dacite_from_dict(_, _)
RECURSIVE dacite_build_value(_, _)

\* dacite builds the value of a field of union type: an instance of one of
\* the classes is kept, a dict is made into the first class of the union that
\* accepts it, anything else matches nothing.
dacite_build_union(classes, v) ==
    IF IsObject(v)
    THEN IF \E i \in DOMAIN classes : classes[i] = v.cls
         THEN v
         ELSE Raised("UnionMatchError")
    ELSE IF ~IsDict(v)
    THEN Raised("UnionMatchError")
    ELSE LET built == [i \in DOMAIN classes |-> dacite_from_dict(classes[i], v)]
         IN  IF \A i \in DOMAIN built : IsRaised(built[i])
             THEN Raised("UnionMatchError")
             ELSE built[CHOOSE i \in DOMAIN built :
                          ~IsRaised(built[i]) /\ \A j \in 1..(i - 1) : IsRaised(built[j])]

\* dacite builds the value of a field of the type given; a list that is
\* built is given as JList(items).
dacite_build_value(type, v) ==
    IF "union" \in DOMAIN type
    THEN dacite_build_union(type.union, v)
    ELSE IF ~IsList(v)
    THEN Raised("WrongTypeError")
    ELSE LET built == [i \in DOMAIN v.list |-> dacite_build_value(type.list_of, v.list[i])]
         IN  IF AnyRaised(built) THEN FirstRaised(built) ELSE JList(built)

\* dacite.from_dict(cls, data): the fields of cls are taken from the keys of
\* data; a key of no field is ignored, a field without a key takes its
\* default, and a field without a key and without a default raises.
dacite_from_dict(cls, data) ==
    IF "id" \notin DOMAIN data
    THEN Raised("MissingValueError")
    ELSE LET category == get(data, "category", default_category(cls))
         IN
         CASE cls = "Datapoint" ->
                Datapoint(data.id, get(data, "type", no_type), category)
           [] cls \in {"Multivalue", "Tuple"} ->
                IF "children" \notin DOMAIN data
                THEN Raised("MissingValueError")
                ELSE LET children == dacite_build_value(children_type(cls), data.children)
                     IN  IF IsRaised(children) THEN children
                         ELSE IF cls = "Multivalue"
                         THEN Multivalue(data.id, children, category)
                         ELSE Tuple(data.id, children.list, category)
           [] cls = "Section" ->
                LET children == dacite_build_value(children_type(cls),
                                                   get(data, "children", JList(<<>>)))
                IN  IF IsRaised(children) THEN children
                    ELSE Section(data.id, children.list, category)
           [] cls = "Schema" ->
                LET content == dacite_build_value(children_type(cls),
                                                  get(data, "content", JList(<<>>)))
                IN  IF IsRaised(content) THEN content
                    ELSE Schema(data.id, content.list)

\* A from_dict that pops from and assigns to the dict it was given.
caller_dict_uncopied(kept, local) == local

\* data = data.copy(), lines 206, 280, 333 and 462 of schema.py and line 380
\* of rule.py: the method pops from and assigns to the copy, `local`; the
\* caller's dict keeps its keys and its values, `kept`, the dicts among them
\* as the calls made with them have left them.
caller_dict(kept, local) == kept

\* Datapoint.from_dict, lines 135-139.
Datapoint_from_dict(data) ==
    IF ~IsDict(data) THEN Raised("TypeError")
    ELSE dacite_from_dict("Datapoint", data)

\* The end of a from_dict that has built a list of nodes: the first
\* exception of the list comprehension, if there is one; otherwise the list
\* is assigned to the copy and dacite builds the object (lines 283-285,
\* 352-353, 465-467).
from_dict_with(cls, data, key, built) ==
    IF AnyRaised(built)
    THEN FirstRaised(built)
    ELSE dacite_from_dict(cls, put(data, key, JList(built)))

\* A Tuple.from_dict that takes no default for a missing 'children' key.
Tuple_from_dict_requires_children(data) ==
    IF "children" \notin DOMAIN data
    THEN Raised("MissingValueError")
    ELSE IF ~IsList(data.children)
    THEN Raised("TypeError")
    ELSE LET children == [i \in DOMAIN data.children.list |->
                            Datapoint_from_dict(data.children.list[i])]
         IN  IF AnyRaised(children)
             THEN FirstRaised(children)
             ELSE dacite_from_dict("Tuple", put(data, "children", JList(children)))

\* Tuple.from_dict, lines 277-286: every child is made a Datapoint, whatever
\* its category; without the key there are no children.  Iterating a dict
\* gives its keys, and None is not iterable: neither is a dict to build from.
Tuple_from_dict(data) ==
    LET children_data == get(data, "children", JList(<<>>))
    IN  IF ~IsList(children_data)
        THEN Raised("TypeError")
        ELSE from_dict_with("Tuple", data, "children",
                            [i \in DOMAIN children_data.list |->
                               Datapoint_from_dict(children_data.list[i])])

\* The end of Multivalue.from_dict, lines 209-221: the exception of the
\* child, if it raised; otherwise the child is assigned to the copy unless
\* it is None, and dacite builds the object.
Multivalue_with(data, children) ==
    IF IsRaised(children) THEN children
    ELSE dacite_from_dict("Multivalue",
                          IF IsNone(children)
                          THEN [k \in DOMAIN data \ {"children"} |-> data[k]]
                          ELSE put(data, "children", children))

\* Multivalue.from_dict, lines 203-221: a dict child is built by its
\* category, tuple or datapoint, and is left a dict otherwise; a child that
\* is not a dict is put back as it is; without the key nothing is put back.
Multivalue_from_dict(data) ==
    LET children_data == get(data, "children", None)
        category == get(children_data, "category", "")
    IN  Multivalue_with(data,
                        IF ~IsDict(children_data) THEN children_data
                        ELSE CASE category = "tuple" -> Tuple_from_dict(children_data)
                               [] category = "datapoint" -> Datapoint_from_dict(children_data)
                               [] OTHER -> children_data)

\* A section that makes a Datapoint of every dict child.
Section_child_from_dict_datapoints(child_data) ==
    IF ~IsDict(child_data) THEN child_data ELSE Datapoint_from_dict(child_data)

\* Section.from_dict, lines 330-354: a dict child is built by its category,
\* datapoint, multivalue or tuple; any other child is appended as it is.
Section_child_from_dict(child_data) ==
    IF ~IsDict(child_data) THEN child_data
    ELSE LET category == get(child_data, "category", "")
         IN  CASE category = "datapoint"  -> Datapoint_from_dict(child_data)
               [] category = "multivalue" -> Multivalue_from_dict(child_data)
               [] category = "tuple"      -> Tuple_from_dict(child_data)
               [] OTHER                   -> child_data

Section_from_dict(data) ==
    LET children_data == get(data, "children", JList(<<>>))
    IN  IF ~IsList(children_data)
        THEN Raised("TypeError")
        ELSE from_dict_with("Section", data, "children",
                            [i \in DOMAIN children_data.list |->
                               Section_child_from_dict(children_data.list[i])])

\* Schema.from_dict, lines 459-468: every item of content is made a Section.
Schema_from_dict(data) ==
    LET content_data == get(data, "content", JList(<<>>))
    IN  IF ~IsList(content_data)
        THEN Raised("TypeError")
        ELSE from_dict_with("Schema", data, "content",
                            [i \in DOMAIN content_data.list |->
                               Section_from_dict(content_data.list[i])])

\* A child is reached when no child before it has raised.
Reached(built, i) == \A j \in 1..(i - 1) : ~IsRaised(built[j])

\* The caller's dict after a from_dict that has popped the list under the
\* key, built a node of every item until one raised, and assigned the list
\* of nodes; `left` are the items as the calls made with them leave them.
list_leaves(data, key, built, left) ==
    caller_dict(IF key \in DOMAIN data
                THEN put(data, key,
                         JList([i \in DOMAIN left |->
                                  IF Reached(built, i) THEN left[i] ELSE data[key].list[i]]))
                ELSE data,
                IF AnyRaised(built)
                THEN [k \in DOMAIN data \ {key} |-> data[k]]
                ELSE put(data, key, JList(built)))

\* The caller's dict after Tuple.from_dict(data), lines 280-283: the dicts
\* of the children are only read (line 138).
Tuple_from_dict_leaves(data) ==
    LET children_data == get(data, "children", JList(<<>>))
    IN  IF ~IsList(children_data)
        THEN caller_dict(data, [k \in DOMAIN data \ {"children"} |-> data[k]])
        ELSE list_leaves(data, "children",
                         [i \in DOMAIN children_data.list |->
                            Datapoint_from_dict(children_data.list[i])],
                         children_data.list)

\* The caller's dict after a Multivalue.from_dict that has popped the child
\* and assigned what it built of it, unless that raised or is None.
Multivalue_leaves_with(data, children, children_left) ==
    caller_dict(IF "children" \in DOMAIN data
                THEN put(data, "children", children_left)
                ELSE data,
                IF IsRaised(children) \/ IsNone(children)
                THEN [k \in DOMAIN data \ {"children"} |-> data[k]]
                ELSE put(data, "children", children))

\* The caller's dict after Multivalue.from_dict(data), lines 206-218.
Multivalue_from_dict_leaves(data) ==
    LET children_data == get(data, "children", None)
        category == get(children_data, "category", "")
    IN  Multivalue_leaves_with(
            data,
            IF ~IsDict(children_data) THEN children_data
            ELSE CASE category = "tuple" -> Tuple_from_dict(children_data)
                   [] category = "datapoint" -> Datapoint_from_dict(children_data)
                   [] OTHER -> children_data,
            IF IsDict(children_data) /\ category = "tuple"
            THEN Tuple_from_dict_leaves(children_data)
            ELSE children_data)

\* The dict of a child of a section after the loop of lines 337-350.
Section_child_leaves(child_data) ==
    IF ~IsDict(child_data) THEN child_data
    ELSE LET category == get(child_data, "category", "")
         IN  CASE category = "multivalue" -> Multivalue_from_dict_leaves(child_data)
               [] category = "tuple"      -> Tuple_from_dict_leaves(child_data)
               [] OTHER                   -> child_data

\* The caller's dict after Section.from_dict(data), lines 333-352.
Section_from_dict_leaves(data) ==
    LET children_data == get(data, "children", JList(<<>>))
    IN  IF ~IsList(children_data)
        THEN caller_dict(data, [k \in DOMAIN data \ {"children"} |-> data[k]])
        ELSE list_leaves(data, "children",
                         [i \in DOMAIN children_data.list |->
                            Section_child_from_dict(children_data.list[i])],
                         [i \in DOMAIN children_data.list |->
                            Section_child_leaves(children_data.list[i])])

\* The caller's dict after Schema.from_dict(data), lines 462-465.
Schema_from_dict_leaves(data) ==
    LET content_data == get(data, "content", JList(<<>>))
    IN  IF ~IsList(content_data)
        THEN caller_dict(data, [k \in DOMAIN data \ {"content"} |-> data[k]])
        ELSE list_leaves(data, "content",
                         [i \in DOMAIN content_data.list |->
                            Section_from_dict(content_data.list[i])],
                         [i \in DOMAIN content_data.list |->
                            Section_from_dict_leaves(content_data.list[i])])

\* The categories a caller may give: `category` is an ordinary field of every
\* class, a string the constructor takes as it is.  Section.from_dict is
\* called for every item of content and does not read the item's category,
\* which is left at its default here.
AnyCategories == [cls \in {"Datapoint", "Multivalue", "Tuple", "Section"} |->
                    IF cls = "Section" THEN {default_category(cls)} ELSE Categories]

\* The schema of the tests: a section of two datapoints and a section of a
\* multivalue of a tuple of two datapoints.
boring_schema ==
    Schema(123456,
           <<Section("invoice_section",
                     <<Datapoint("invoice_number", "string", "datapoint"),
                       Datapoint("total_amount", "number", "datapoint")>>,
                     "section"),
             Section("line_items_section",
                     <<Multivalue("line_items",
                                  Tuple("line_item",
                                        <<Datapoint("item_description", "string", "datapoint"),
                                          Datapoint("item_amount", "number", "datapoint")>>,
                                        "tuple"),
                                  "multivalue")>>,
                     "section")>>)

\* A schema a caller has constructed with categories of its choice, or the
\* schema of the tests.
serde_Init ==
    /\ schema \in SchemasUpTo(MaxSerdeNodes, AnyCategories) \cup {boring_schema}
    /\ sc_call = [op |-> "none"]
    /\ sc_result = Unset

\* Schema.from_dict(asdict(schema)), test_serialization_roundtrip.
call_roundtrip ==
    /\ schema # Unset
    /\ sc_call' = [op |-> "roundtrip", data |-> asdict(schema),
                   data_after |-> Schema_from_dict_leaves(asdict(schema))]
    /\ sc_result' = Schema_from_dict(asdict(schema))
    /\ UNCHANGED schema
    /\ UNCHANGED <<pa_vars, pt_vars, up_vars, rq_vars, rl_vars, ht_vars, fc_vars, ls_vars>>

\* The dict without the key given, in the dict itself and in every dict
\* below it: the response of an API that does not send the key.
RECURSIVE without(_, _)
without(data, key) ==
    [k \in DOMAIN data \ {key} |->
        IF k \notin {"children", "content"} THEN data[k]
        ELSE IF IsList(data[k])
        THEN JList([i \in DOMAIN data[k].list |-> without(data[k].list[i], key)])
        ELSE without(data[k], key)]

\* The keys of a node that a dict may lack.
OptionalKeys == {"category", "children"}

\* Schema.from_dict(data) for a dict that lacks a key.
call_from_dict(key) ==
    /\ schema # Unset
    /\ LET data == without(asdict(schema), key)
       IN  /\ sc_call' = [op |-> "from_dict", data |-> data,
                          data_after |-> Schema_from_dict_leaves(data)]
           /\ sc_result' = Schema_from_dict(data)
    /\ UNCHANGED schema
    /\ UNCHANGED <<pa_vars, pt_vars, up_vars, rq_vars, rl_vars, ht_vars, fc_vars, ls_vars>>

\* The key under which a dict holds the nodes below it.
children_key(cls) == IF cls = "Schema" THEN "content" ELSE "children"

\* The dict of a schema in which the objects of one class have no key for
\* the nodes below them, or have None under it.
RECURSIVE asdict_lacking(_, _, _)
asdict_lacking(obj, cls, as_none) ==
    IF obj.cls = cls
    THEN IF as_none THEN put(asdict(obj), children_key(cls), None)
         ELSE [k \in DOMAIN asdict(obj) \ {children_key(cls)} |-> asdict(obj)[k]]
    ELSE CASE obj.cls = "Datapoint" -> asdict(obj)
           [] obj.cls = "Multivalue" ->
                put(asdict(obj), "children", asdict_lacking(obj.children, cls, as_none))
           [] obj.cls \in {"Tuple", "Section"} ->
                put(asdict(obj), "children",
                    JList([i \in DOMAIN obj.children |->
                             asdict_lacking(obj.children[i], cls, as_none)]))
           [] obj.cls = "Schema" ->
                put(asdict(obj), "content",
                    JList([i \in DOMAIN obj.content |->
                             asdict_lacking(obj.content[i], cls, as_none)]))

\* The classes that hold nodes.
HoldingClasses == {"Schema", "Section", "Multivalue", "Tuple"}

\* Schema.from_dict(data) for a dict in which the dicts of one class lack
\* their children, or, for a multivalue, hold None.
call_from_dict_lacking(cls, as_none) ==
    /\ schema # Unset
    /\ as_none => cls = "Multivalue"
    /\ LET data == asdict_lacking(schema, cls, as_none)
       IN  /\ sc_call' = [op |-> "from_dict", data |-> data,
                          data_after |-> Schema_from_dict_leaves(data), lacking |-> cls]
           /\ sc_result' = Schema_from_dict(data)
    /\ UNCHANGED schema
    /\ UNCHANGED <<pa_vars, pt_vars, up_vars, rq_vars, rl_vars, ht_vars, fc_vars, ls_vars>>

\* The dict with a key more, in the dict itself and in every dict below it.
RECURSIVE with_key(_, _, _)
with_key(data, key, value) ==
    [k \in DOMAIN data \cup {key} |->
        IF k = key THEN value
        ELSE IF k \notin {"children", "content"} THEN data[k]
        ELSE IF IsList(data[k])
        THEN JList([i \in DOMAIN data[k].list |-> with_key(data[k].list[i], key, value)])
        ELSE with_key(data[k], key, value)]

\* Keys of a response that name no field of a node.
ExtraKeys == {"_parent", "parent"}

\* Schema.from_dict(data) for a dict whose dicts hold a key that is no field.
call_from_dict_with_key(key) ==
    /\ schema # Unset
    /\ LET data == with_key(asdict(schema), key, "https://elis.rossum.ai/api/v1/schemas/1")
       IN  /\ sc_call' = [op |-> "from_dict", data |-> data,
                          data_after |-> Schema_from_dict_leaves(data)]
           /\ sc_result' = Schema_from_dict(data)
    /\ UNCHANGED schema
    /\ UNCHANGED <<pa_vars, pt_vars, up_vars, rq_vars, rl_vars, ht_vars, fc_vars, ls_vars>>

SerdeNext ==
    \/ call_roundtrip
    \/ \E key \in OptionalKeys : call_from_dict(key)
    \/ \E cls \in HoldingClasses, as_none \in BOOLEAN : call_from_dict_lacking(cls, as_none)

-----------------------------------------------------------------------------
(* Rules: rossum_api.models.rule *)

(* A dict is a record of its keys, a list in a dict is JList(items), as for  *)
(* the schema; the value of a key of a payload is kept as it is given.       *)

EmptyDict == <<>>

\* RuleActionType, lines 8-22.
RuleActionTypes ==
    {"show_message", "add_automation_blocker", "change_status", "change_queue",
     "add_label", "remove_label", "add_remove_label",
     "show_field", "hide_field", "show_hide_field",
     "add_validation_source", "send_email", "custom"}

\* ShowMessageType and ChangeStatusMethod, lines 31 and 33.
ShowMessageTypes == {"error", "warning", "info"}
ChangeStatusMethods == {"postpone", "export", "delete", "confirm", "reject"}

\* A table with an entry for a type that is no RuleActionType.
ACTION_TYPE_TO_PAYLOAD_with_future_type ==
    [show_message |-> "ShowMessagePayload",
     add_automation_blocker |-> "AddAutomationBlockerPayload",
     change_status |-> "ChangeStatusPayload",
     change_queue |-> "ChangeQueuePayload",
     add_label |-> "LabelsPayload",
     remove_label |-> "LabelsPayload",
     add_remove_label |-> "LabelsPayload",
     show_field |-> "SchemaIdsPayload",
     hide_field |-> "SchemaIdsPayload",
     show_hide_field |-> "SchemaIdsPayload",
     add_validation_source |-> "AddValidationSourcePayload",
     send_email |-> "SendEmailPayload",
     custom |-> "None",
     some_future_type |-> "None"]

\* _ACTION_TYPE_TO_PAYLOAD, lines 227-241, entry by entry; "None" stands for
\* None.
ACTION_TYPE_TO_PAYLOAD ==
    [show_message |-> "ShowMessagePayload",
     add_automation_blocker |-> "AddAutomationBlockerPayload",
     change_status |-> "ChangeStatusPayload",
     change_queue |-> "ChangeQueuePayload",
     add_label |-> "LabelsPayload",
     remove_label |-> "LabelsPayload",
     add_remove_label |-> "LabelsPayload",
     show_field |-> "SchemaIdsPayload",
     hide_field |-> "SchemaIdsPayload",
     show_hide_field |-> "SchemaIdsPayload",
     add_validation_source |-> "AddValidationSourcePayload",
     send_email |-> "SendEmailPayload",
     custom |-> "None"]

\* The fields of each payload class that have no default.
required_fields(payload_cls) ==
    CASE payload_cls = "ShowMessagePayload" -> {"type", "content"}
      [] payload_cls = "AddAutomationBlockerPayload" -> {"content"}
      [] payload_cls = "ChangeStatusPayload" -> {"method"}
      [] payload_cls = "ChangeQueuePayload" -> {"queue_id"}
      [] payload_cls = "AddValidationSourcePayload" -> {"schema_id"}
      [] OTHER -> {}

\* The fields of each payload class that have a default, with the default.
default_fields(payload_cls) ==
    CASE payload_cls \in {"ShowMessagePayload", "AddAutomationBlockerPayload"} ->
           [schema_id |-> None]
      [] payload_cls = "ChangeQueuePayload" -> [reimport |-> None]
      [] payload_cls = "LabelsPayload" -> [labels |-> <<>>]
      [] payload_cls = "SchemaIdsPayload" -> [schema_ids |-> <<>>]
      [] payload_cls = "SendEmailPayload" ->
           [email_template |-> None, attach_document |-> FALSE, to |-> <<>>,
            subject |-> None, body |-> None, cc |-> <<>>, bcc |-> <<>>]
      [] OTHER -> EmptyDict

\* The fields of Literal type, with the values the type allows.
literal_fields(payload_cls) ==
    CASE payload_cls = "ShowMessagePayload" -> [type |-> ShowMessageTypes]
      [] payload_cls = "ChangeStatusPayload" -> [method |-> ChangeStatusMethods]
      [] OTHER -> EmptyDict

\* The fields of each payload class in the order of their declaration.
declared_fields(payload_cls) ==
    CASE payload_cls = "ShowMessagePayload" -> <<"type", "content", "schema_id">>
      [] payload_cls = "AddAutomationBlockerPayload" -> <<"content", "schema_id">>
      [] payload_cls = "ChangeStatusPayload" -> <<"method">>
      [] payload_cls = "ChangeQueuePayload" -> <<"queue_id", "reimport">>
      [] payload_cls = "LabelsPayload" -> <<"labels">>
      [] payload_cls = "SchemaIdsPayload" -> <<"schema_ids">>
      [] payload_cls = "AddValidationSourcePayload" -> <<"schema_id">>
      [] payload_cls = "SendEmailPayload" ->
           <<"email_template", "attach_document", "to", "subject", "body", "cc", "bcc">>

\* dacite.from_dict(payload_cls, payload_data): an object of the class with
\* the fields taken from the keys, the defaults for the keys that are not
\* there, the other keys ignored.  The fields are built in the order of
\* their declaration; a missing field without a default raises
\* MissingValueError and a value that is not of the field's Literal type
\* raises WrongTypeError.
dacite_payload_from_dict(payload_cls, payload_data) ==
    LET fields == declared_fields(payload_cls)
        defaults == default_fields(payload_cls)
        literals == literal_fields(payload_cls)
        failure(f) ==
            IF f \notin DOMAIN payload_data
            THEN IF f \in required_fields(payload_cls) THEN "MissingValueError" ELSE ""
            ELSE IF f \in DOMAIN literals /\ payload_data[f] \notin literals[f]
            THEN "WrongTypeError"
            ELSE ""
        failing == {i \in DOMAIN fields : failure(fields[i]) # ""}
    IN  IF failing # {}
        THEN Raised(failure(fields[CHOOSE i \in failing : \A j \in failing : i <= j]))
        ELSE [f \in {fields[i] : i \in DOMAIN fields} \cup {"cls"} |->
                 IF f = "cls" THEN payload_cls
                 ELSE IF f \in DOMAIN payload_data THEN payload_data[f]
                 ELSE defaults[f]]

\* The constructor of RuleAction, lines 269-273.
RuleAction(id, type, payload, event, enabled) ==
    [cls |-> "RuleAction", id |-> id, type |-> type, payload |-> payload,
     event |-> event, enabled |-> enabled]

\* A RuleAction.from_dict that builds every payload as a LabelsPayload.
RuleAction_payload_cls_labels(action_type) == "LabelsPayload"

\* RuleAction.from_dict, line 281: the lookup, which raises KeyError for a
\* type that is not a key.
RuleAction_payload_cls(action_type) ==
    IF action_type \in DOMAIN ACTION_TYPE_TO_PAYLOAD
    THEN ACTION_TYPE_TO_PAYLOAD[action_type]
    ELSE "KeyError"

\* RuleAction.from_dict, lines 275-294.
RuleAction_from_dict(data) ==
    IF "type" \notin DOMAIN data
    THEN Raised("KeyError")
    ELSE LET action_type == data.type
             payload_data == get(data, "payload", EmptyDict)
             payload_cls == RuleAction_payload_cls(action_type)
             payload == IF payload_cls # "None"
                        THEN dacite_payload_from_dict(payload_cls, payload_data)
                        ELSE payload_data
         IN  IF payload_cls = "KeyError" THEN Raised("KeyError")
             ELSE IF IsRaised(payload) THEN payload
             ELSE IF "id" \notin DOMAIN data \/ "event" \notin DOMAIN data
             THEN Raised("KeyError")
             ELSE RuleAction(data.id, data.type, payload, data.event,
                             get(data, "enabled", TRUE))

\* The constructor of Rule, lines 362-375, with the fields the model keeps.
Rule(id, name, enabled, organization, trigger_condition, actions) ==
    [cls |-> "Rule", id |-> id, name |-> name, enabled |-> enabled,
     organization |-> organization, trigger_condition |-> trigger_condition,
     actions |-> actions]

\* dacite.from_dict(Rule, data), line 383: the actions are RuleAction objects
\* already; id, name, enabled and organization have no default.
dacite_rule_from_dict(data) ==
    IF \E f \in {"id", "name", "enabled", "organization"} : f \notin DOMAIN data
    THEN Raised("MissingValueError")
    ELSE Rule(data.id, data.name, data.enabled, data.organization,
              get(data, "trigger_condition", "True"), data.actions.list)

\* A Rule.from_dict that deserializes the actions from the last to the first.
Rule_actions_reversed(actions_data) ==
    [i \in DOMAIN actions_data |->
        RuleAction_from_dict(actions_data[Len(actions_data) + 1 - i])]

\* A Rule.from_dict that leaves out the actions it cannot deserialize.
Rule_actions_skipping_bad(actions_data) ==
    LET RECURSIVE good(_)
        good(i) ==
            IF i > Len(actions_data) THEN <<>>
            ELSE LET action == RuleAction_from_dict(actions_data[i])
                 IN  (IF IsRaised(action) THEN <<>> ELSE <<action>>) \o good(i + 1)
    IN  good(1)

\* Rule.from_dict, line 382: the list comprehension over the actions.
Rule_actions(actions_data) ==
    [i \in DOMAIN actions_data |-> RuleAction_from_dict(actions_data[i])]

\* Rule.from_dict, lines 377-384.
Rule_from_dict(data) ==
    LET actions_data == get(data, "actions", JList(<<>>))
        actions == Rule_actions(actions_data.list)
    IN  IF AnyRaised(actions)
        THEN FirstRaised(actions)
        ELSE dacite_rule_from_dict(put(data, "actions", JList(actions)))

\* The caller's dict after Rule.from_dict(data), lines 380-382: the actions
\* are popped, and assigned once every action is built; RuleAction.from_dict
\* only reads the dict of an action (lines 278-293).
Rule_from_dict_leaves(data) ==
    list_leaves(data, "actions",
                Rule_actions(get(data, "actions", JList(<<>>)).list),
                get(data, "actions", JList(<<>>)).list)

\* The payloads of the tests, by action type; some_future_type is no action
\* type.
TestPayload(action_type) ==
    CASE action_type = "show_message" ->
           [type |-> "error", content |-> "msg", schema_id |-> "field_1"]
      [] action_type = "add_automation_blocker" -> [content |-> "blocked", schema_id |-> "f1"]
      [] action_type = "change_status" -> [method |-> "postpone"]
      [] action_type = "change_queue" -> [queue_id |-> 42, reimport |-> TRUE]
      [] action_type \in {"add_label", "remove_label", "add_remove_label"} ->
           [labels |-> <<"lbl1">>]
      [] action_type \in {"show_field", "hide_field", "show_hide_field"} ->
           [schema_ids |-> <<"s1">>]
      [] action_type = "add_validation_source" -> [schema_id |-> "field_1"]
      [] action_type = "send_email" ->
           [email_template |-> "https://example.com/templates/1",
            attach_document |-> TRUE, to |-> <<"a@b.com">>]
      [] action_type = "custom" -> [foo |-> "bar", nested |-> [a |-> 1]]
      [] OTHER -> [key |-> "val"]

\* data without the key.
drop(data, key) == [k \in DOMAIN data \ {key} |-> data[k]]

\* The payloads an action of the type may come with: the payload of the
\* tests, the same without one of the fields its class requires, and these
\* with a value its Literal type does not allow.
PayloadsOf(action_type) ==
    LET payload == TestPayload(action_type)
        payload_cls == IF action_type \in RuleActionTypes
                       THEN ACTION_TYPE_TO_PAYLOAD[action_type] ELSE "None"
        lacking == {drop(payload, f) : f \in required_fields(payload_cls)}
    IN  {payload} \cup lacking
          \cup UNION {{put(p, f, "other") :
                         f \in DOMAIN literal_fields(payload_cls) \cap DOMAIN p} :
                      p \in {payload} \cup lacking}

\* The action dicts of a response: of every type and of a type that is not
\* known, with a payload or without the key, and one without its event.
ActionDicts ==
    LET types == RuleActionTypes \cup {"some_future_type"}
        action(t) == [id |-> "action-1", type |-> t, event |-> "validation"]
    IN  UNION {{put(action(t), "payload", p) : p \in PayloadsOf(t)} : t \in types}
          \cup {action(t) : t \in types}
          \cup {drop(put(action("change_status"), "payload",
                         TestPayload("change_status")), "event")}

\* The rule dict of the tests, with the actions given; the id of an action is
\* unique within the rule.
RuleDict(actions) ==
    [id |-> 1, name |-> "test", enabled |-> TRUE,
     organization |-> "https://elis.rossum.ai/api/v1/organizations/1",
     actions |-> JList([i \in DOMAIN actions |->
                          put(actions[i], "id", "action-" \o ToString(i))])]

\* The rule dicts of a response: any actions, or no actions key, or no name.
RuleDicts ==
    LET with_actions == {RuleDict(actions) : actions \in SeqsUpTo(ActionDicts, MaxActions)}
    IN  with_actions
          \cup {drop(RuleDict(<<>>), "actions")}
          \cup {drop(d, "name") : d \in with_actions}

rl_Idle ==
    /\ rule_data = Unset
    /\ rule_result = Unset

\* A response holds a rule dict; nothing was deserialized yet.
rl_Init ==
    /\ rule_data \in RuleDicts
    /\ rule_result = Unset

\* Rule.from_dict(data)
call_Rule_from_dict ==
    /\ rule_data # Unset
    /\ rule_result = Unset
    /\ rule_result' = Rule_from_dict(rule_data)
    /\ rule_data' = Rule_from_dict_leaves(rule_data)
    /\ UNCHANGED <<pa_vars, pt_vars, up_vars, rq_vars, sc_vars, ht_vars, fc_vars, ls_vars>>

RuleNext ==
    \/ call_Rule_from_dict

-----------------------------------------------------------------------------
(* Hook templates: rossum_api.models.hook_template *)

(* A str is the sequence of its characters. *)

Digits == <<"0", "1", "2", "3", "4", "5", "6", "7", "8", "9">>
IsDigit(c) == \E d \in DOMAIN Digits : Digits[d] = c
DigitValue(c) == (CHOOSE d \in DOMAIN Digits : Digits[d] = c) - 1

\* s.rstrip(chars): s without the characters of chars at its end.
RECURSIVE rstrip(_, _)
rstrip(s, chars) ==
    IF s # <<>> /\ s[Len(s)] \in chars THEN rstrip(SubSeq(s, 1, Len(s) - 1), chars) ELSE s

\* s.split(sep)[-1]: what follows the last sep of s, all of s without a sep.
RECURSIVE split_last(_, _)
split_last(s, sep) ==
    IF s = <<>> \/ s[Len(s)] = sep THEN <<>>
    ELSE Append(split_last(SubSeq(s, 1, Len(s) - 1), sep), s[Len(s)])

\* int(s) for a str of decimal digits; any other str of the characters of the
\* model raises ValueError.
RECURSIVE int(_)
int(s) ==
    IF s = <<>> \/ \E i \in DOMAIN s : ~IsDigit(s[i])
    THEN Raised("ValueError")
    ELSE IF Len(s) = 1 THEN [value |-> DigitValue(s[1])]
    ELSE [value |-> 10 * int(SubSeq(s, 1, Len(s) - 1)).value + DigitValue(s[Len(s)])]

\* The dataclass HookTemplate, lines 75-96, with the fields the model keeps.
HookTemplate(name, url, id) ==
    [cls |-> "HookTemplate", name |-> name, url |-> url, id |-> id]

\* A __post_init__ that takes the id from the url whatever id was given.
HookTemplate_post_init_always(args) ==
    LET id == int(split_last(rstrip(args.url, {"/"}), "/"))
    IN  IF IsRaised(id) THEN id ELSE HookTemplate(args.name, args.url, id.value)

\* HookTemplate.__post_init__, lines 98-100, after the generated __init__.
HookTemplate_post_init(args) ==
    IF ~args.id_given
    THEN LET id == int(split_last(rstrip(args.url, {"/"}), "/"))
         IN  IF IsRaised(id) THEN id ELSE HookTemplate(args.name, args.url, id.value)
    ELSE HookTemplate(args.name, args.url, args.id)

\* The characters of the urls of the model.
UrlChars == {"/", "0", "1", "2", "x"}

\* The ids a caller gives.
GivenIds == {0, 100}

ht_Idle ==
    /\ ht_args = Unset
    /\ hook_template = Unset

\* The arguments of a construction: a url, and an id or None (id_given is
\* FALSE for None).
ht_Init ==
    /\ ht_args \in [name : {"Vendor Matching"}, url : SeqsUpTo(UrlChars, MaxUrlLen),
                    id_given : {TRUE}, id : GivenIds]
                   \cup [name : {"Vendor Matching"}, url : SeqsUpTo(UrlChars, MaxUrlLen),
                         id_given : {FALSE}, id : {0}]
    /\ hook_template = Unset

\* HookTemplate(name=..., url=..., id=...)
construct_HookTemplate ==
    /\ ht_args # Unset
    /\ hook_template = Unset
    /\ hook_template' = HookTemplate_post_init(ht_args)
    /\ UNCHANGED ht_args
    /\ UNCHANGED <<pa_vars, pt_vars, up_vars, rq_vars, sc_vars, rl_vars, fc_vars, ls_vars>>

HookTemplateNext ==
    \/ construct_HookTemplate

-----------------------------------------------------------------------------
(* The awaitable methods of the client: retrieve_*, create_*, update_*, delete_* *)

(* A method is a coroutine that calls self._http_client and awaits the     *)
(* response.  The history fc_http_calls keeps every call made on the HTTP  *)
(* client: its operation, its positional arguments and its keyword         *)
(* arguments.  Python values of different types are kept apart by a tag.   *)

PyInt(n) == [int |-> n]
PyStr(s) == [str |-> s]
\* A member of the Resource enum.
Resource(name) == [resource |-> name]
\* The value of a helper of domain_logic applied to its arguments.
Applied(fn, args) == [fn |-> fn, args |-> args]

HttpCall(op, args, kwargs) == [op |-> op, args |-> args, kwargs |-> kwargs]
NoKwargs == [k \in {} |-> None]

\* The ids and the data dicts a caller passes.
CallerIds == {1, 106}
CallerDatas == {[name |-> "a"], [name |-> "b", enabled |-> FALSE]}

\* The organizations a user may belong to.
OrganizationIds == {1, 106}

\* The methods whose body is one call of the HTTP client on the method's own
\* resource followed by `return self._deserializer(resource, response)`, or,
\* for delete, by the return of what the call returned.
PlainMethods ==
    [retrieve_queue                |-> [op |-> "fetch_one", resource |-> "Queue"],
     create_new_queue              |-> [op |-> "create",    resource |-> "Queue"],
     delete_queue                  |-> [op |-> "delete",    resource |-> "Queue"],
     retrieve_upload               |-> [op |-> "fetch_one", resource |-> "Upload"],
     retrieve_organization         |-> [op |-> "fetch_one", resource |-> "Organization"],
     retrieve_organization_group   |-> [op |-> "fetch_one", resource |-> "OrganizationGroup"],
     retrieve_schema               |-> [op |-> "fetch_one", resource |-> "Schema"],
     create_new_schema             |-> [op |-> "create",    resource |-> "Schema"],
     delete_schema                 |-> [op |-> "delete",    resource |-> "Schema"],
     retrieve_user                 |-> [op |-> "fetch_one", resource |-> "User"],
     create_new_user               |-> [op |-> "create",    resource |-> "User"],
     update_annotation             |-> [op |-> "replace",   resource |-> "Annotation"],
     update_part_annotation        |-> [op |-> "update",    resource |-> "Annotation"],
     create_new_annotation         |-> [op |-> "create",    resource |-> "Annotation"],
     retrieve_document             |-> [op |-> "fetch_one", resource |-> "Document"],
     retrieve_document_relation    |-> [op |-> "fetch_one", resource |-> "DocumentRelation"],
     create_new_document_relation  |-> [op |-> "create",    resource |-> "DocumentRelation"],
     update_document_relation      |-> [op |-> "replace",   resource |-> "DocumentRelation"],
     update_part_document_relation |-> [op |-> "update",    resource |-> "DocumentRelation"],
     delete_document_relation      |-> [op |-> "delete",    resource |-> "DocumentRelation"],
     create_new_relation           |-> [op |-> "create",    resource |-> "Relation"],
     retrieve_workspace            |-> [op |-> "fetch_one", resource |-> "Workspace"],
     create_new_workspace          |-> [op |-> "create",    resource |-> "Workspace"],
     delete_workspace              |-> [op |-> "delete",    resource |-> "Workspace"],
     retrieve_engine               |-> [op |-> "fetch_one", resource |-> "Engine"],
     create_new_inbox              |-> [op |-> "create",    resource |-> "Inbox"],
     retrieve_email                |-> [op |-> "fetch_one", resource |-> "Email"],
     retrieve_email_template       |-> [op |-> "fetch_one", resource |-> "EmailTemplate"],
     create_new_email_template     |-> [op |-> "create",    resource |-> "EmailTemplate"],
     retrieve_connector            |-> [op |-> "fetch_one", resource |-> "Connector"],
     create_new_connector          |-> [op |-> "create",    resource |-> "Connector"],
     retrieve_hook                 |-> [op |-> "fetch_one", resource |-> "Hook"],
     create_new_hook               |-> [op |-> "create",    resource |-> "Hook"],
     update_part_hook              |-> [op |-> "update",    resource |-> "Hook"],
     delete_hook                   |-> [op |-> "delete",    resource |-> "Hook"],
     retrieve_hook_template        |-> [op |-> "fetch_one", resource |-> "HookTemplate"],
     retrieve_rule                 |-> [op |-> "fetch_one", resource |-> "Rule"],
     create_new_rule               |-> [op |-> "create",    resource |-> "Rule"],
     update_part_rule              |-> [op |-> "update",    resource |-> "Rule"],
     delete_rule                   |-> [op |-> "delete",    resource |-> "Rule"]]

\* The retrieve, create, update and delete coroutines with a body of their own.
OtherMethods ==
    {"retrieve_own_organization", "retrieve_organization_limit", "retrieve_annotation",
     "retrieve_task", "delete_annotation", "retrieve_document_content",
     "create_new_document"}

ClientMethods == DOMAIN PlainMethods \cup OtherMethods

\* The parameters of a method: whether it takes an id, a data dict.
takes_id(method) ==
    IF method \in DOMAIN PlainMethods
    THEN PlainMethods[method].op \in {"fetch_one", "update", "replace", "delete"}
    ELSE method \in {"retrieve_organization_limit", "retrieve_annotation", "retrieve_task",
                     "delete_annotation", "retrieve_document_content"}

\* For create_new_document the data stands for file_name, file_data, metadata
\* and parent.
takes_data(method) ==
    IF method \in DOMAIN PlainMethods
    THEN PlainMethods[method].op \in {"create", "update", "replace"}
    ELSE method = "create_new_document"

\* The call of a plain method, with the id 1 whatever the caller's id.
plain_http_call_with_id_1(op, resource, call) ==
    HttpCall(op,
             CASE op \in {"fetch_one", "delete"} -> <<Resource(resource), PyInt(1)>>
               [] op = "create" -> <<Resource(resource), call.data>>
               [] op \in {"update", "replace"} ->
                     <<Resource(resource), PyInt(1), call.data>>,
             NoKwargs)

\* The HTTP client's operation on a resource, with the arguments the plain
\* methods give it: (resource, id), (resource, data) or (resource, id, data).
plain_http_call(op, resource, call) ==
    HttpCall(op,
             CASE op \in {"fetch_one", "delete"} -> <<Resource(resource), call.id>>
               [] op = "create" -> <<Resource(resource), call.data>>
               [] op \in {"update", "replace"} ->
                     <<Resource(resource), call.id, call.data>>,
             NoKwargs)

\* retrieve_organization(org_id)
retrieve_organization_calls(org_id, responses) ==
    IF responses = <<>>
    THEN <<HttpCall("fetch_one", <<Resource("Organization"), org_id>>, NoKwargs)>>
    ELSE <<>>

retrieve_organization_result(responses) == deserializer("Organization", responses[1][1])

\* retrieve_own_organization, asking for the organization before the user.
retrieve_own_organization_calls_organization_first(responses) ==
    CASE Len(responses) = 0 ->
            <<HttpCall("fetch_one", <<Resource("Organization"), PyInt(1)>>, NoKwargs)>>
      [] Len(responses) = 1 ->
            <<HttpCall("fetch_one", <<Resource("Auth"), PyStr("user")>>, NoKwargs)>>
      [] OTHER -> <<>>

\* retrieve_own_organization: the calls it makes on the HTTP client once the
\* awaits so far have returned `responses`.  The second call is the one of
\* retrieve_organization, which it awaits.
retrieve_own_organization_calls(responses) ==
    IF responses = <<>>
    THEN <<HttpCall("fetch_one", <<Resource("Auth"), PyStr("user")>>, NoKwargs)>>
    ELSE LET user == responses[1][1]
             organization_id == PyInt(parse_resource_id_from_url(user.organization))
         IN  retrieve_organization_calls(organization_id, Tail(responses))

retrieve_own_organization_result(responses) ==
    retrieve_organization_result(Tail(responses))

\* _sideload: one task per sideload; a task requests the URL the resource has
\* under the sideload's key unless it is None.  The tasks start in the order
\* of their creation and are awaited together.
sideload_calls(resource, sideloads) ==
    LET RECURSIVE from(_)
        from(i) ==
            IF i > Len(sideloads) THEN <<>>
            ELSE LET sideload_url == resource[to_singular(sideloads[i])]
                 IN  (IF sideload_url # None
                      THEN <<HttpCall("request_json", <<PyStr("GET"), sideload_url>>,
                                      NoKwargs)>>
                      ELSE <<>>) \o from(i + 1)
    IN  from(1)

\* The calls the method of `call` makes on the HTTP client before its next
\* await returns, once the awaits so far have returned `responses`; none
\* when the method returns.
http_calls_of(call, responses) ==
    LET method == call.method IN
    CASE method \in DOMAIN PlainMethods ->
            IF responses = <<>>
            THEN <<plain_http_call(PlainMethods[method].op, PlainMethods[method].resource,
                                   call)>>
            ELSE <<>>
      [] method = "retrieve_own_organization" -> retrieve_own_organization_calls(responses)
      [] method = "retrieve_organization_limit" ->
            IF responses = <<>>
            THEN <<HttpCall("request_json",
                            <<PyStr("GET"),
                              Applied("build_organization_limits_url", <<call.id>>)>>,
                            NoKwargs)>>
            ELSE <<>>
      [] method = "retrieve_annotation" ->
            CASE Len(responses) = 0 ->
                    <<HttpCall("fetch_one", <<Resource("Annotation"), call.id>>,
                               NoKwargs)>>
              [] Len(responses) = 1 -> sideload_calls(responses[1][1], call.sideloads)
              [] OTHER -> <<>>
      [] method = "retrieve_task" ->
            IF responses = <<>>
            THEN <<HttpCall("fetch_one", <<Resource("Task"), call.id>>,
                            [request_params |-> [no_redirect |-> "True"]])>>
            ELSE <<>>
      [] method = "delete_annotation" ->
            IF responses = <<>>
            THEN <<HttpCall("request", <<PyStr("POST")>>,
                            [url |-> Applied("build_resource_delete_url",
                                             <<Resource("Annotation"), call.id>>)])>>
            ELSE <<>>
      [] method = "retrieve_document_content" ->
            IF responses = <<>>
            THEN <<HttpCall("request", <<PyStr("GET")>>,
                            [url |-> Applied("build_resource_content_url",
                                             <<Resource("Document"), call.id>>)])>>
            ELSE <<>>
      [] method = "create_new_document" ->
            IF responses = <<>>
            THEN <<HttpCall("request_json", <<PyStr("POST")>>,
                            [url |-> Resource("Document"),
                             files |-> Applied("build_create_document_params",
                                               <<call.data>>)])>>
            ELSE <<>>

\* _sideload, after the gather: the resource with the sideloaded JSONs put
\* under the sideloads' keys, the list of sections taken out of its dict.
\* `jsons` are the responses of the requests made, in the order of the tasks.
sideloaded(resource, sideloads, jsons) ==
    LET RECURSIVE from(_, _, _)
        from(i, j, res) ==
            IF i > Len(sideloads) THEN res
            ELSE LET key == to_singular(sideloads[i])
                 IN  IF resource[key] = None
                     THEN from(i + 1, j, [res EXCEPT ![key] = None])
                     ELSE from(i + 1, j + 1,
                               [res EXCEPT ![key] = IF sideloads[i] = "content"
                                                    THEN jsons[j].content
                                                    ELSE jsons[j]])
    IN  from(1, 1, resource)

\* delete_document_relation awaits the call and returns nothing; the other
\* delete methods return what the call returned.
ReturnsNothing == {"delete_document_relation", "delete_annotation"}

\* What the method of `call` returns once its awaits have returned `responses`.
result_of(call, responses) ==
    LET method == call.method IN
    CASE method \in ReturnsNothing -> None
      [] method \in DOMAIN PlainMethods \ ReturnsNothing ->
            IF PlainMethods[method].op = "delete"
            THEN responses[1][1]
            ELSE deserializer(PlainMethods[method].resource, responses[1][1])
      [] method = "retrieve_own_organization" -> retrieve_own_organization_result(responses)
      [] method = "retrieve_organization_limit" ->
            [cls |-> "OrganizationLimit", data |-> responses[1][1]]
      [] method = "retrieve_annotation" ->
            deserializer("Annotation",
                         IF call.sideloads # <<>>
                         THEN sideloaded(responses[1][1], call.sideloads, responses[2])
                         ELSE responses[1][1])
      [] method = "retrieve_task" -> deserializer("Task", responses[1][1])
      [] method = "retrieve_document_content" -> responses[1][1].content
      [] method = "create_new_document" -> deserializer("Document", responses[1][1])

\* The server: what it may answer to a call of the HTTP client.
ResponsesTo(http_call) ==
    LET op == http_call.op
        target == http_call.args[1]
    IN
    CASE op = "delete" -> {None}
      [] op = "request" ->
            {[status_code |-> 200, content |-> [bytes_of |-> v]] : v \in 1..2}
      [] op = "request_json" /\ Len(http_call.args) = 2 /\ "path" \in DOMAIN http_call.args[2] ->
            {SideloadJson(http_call.args[2])}
      [] op = "request_json" /\ Len(http_call.args) = 2 /\ "fn" \in DOMAIN http_call.args[2] ->
            {[annotations |-> v] : v \in 1..2}
      [] op = "request_json" /\ Len(http_call.args) = 1 ->
            {[kind |-> http_call.kwargs.url.resource, version |-> v] : v \in 1..2}
      [] op = "fetch_one" /\ target = Resource("Auth") ->
            {[id |-> 5, organization |-> Url(<<"organizations", ToString(o)>>)] :
                o \in OrganizationIds}
      [] op = "fetch_one" /\ target = Resource("Annotation") ->
            {AnnotationJson([status |-> "to_review", modified |-> m]) : m \in BOOLEAN}
      [] OTHER -> {[kind |-> target.resource, version |-> v] : v \in 1..2}

\* The answers to calls awaited together, one per call.
RECURSIVE ResponsesToAll(_)
ResponsesToAll(http_calls) ==
    IF http_calls = <<>> THEN {<<>>}
    ELSE {<<first>> \o rest : first \in ResponsesTo(Head(http_calls)),
                              rest \in ResponsesToAll(Tail(http_calls))}

\* The calls of the methods tried.
CallsOf(method) ==
    [method    : {method},
     id        : IF takes_id(method) THEN {PyInt(n) : n \in CallerIds} ELSE {None},
     data      : IF takes_data(method) THEN CallerDatas ELSE {None},
     sideloads : IF method = "retrieve_annotation"
                 THEN SeqsUpTo(Sideloads, MaxSideloads) ELSE {<<>>}]

fc_Idle ==
    /\ fc_call = Unset
    /\ fc_pc = "idle"
    /\ fc_http_calls = <<>>
    /\ fc_responses = <<>>
    /\ fc_result = Unset

fc_Init ==
    /\ fc_call \in UNION {CallsOf(method) : method \in ClientMethods}
    /\ fc_pc = "running"
    /\ fc_http_calls = <<>>
    /\ fc_responses = <<>>
    /\ fc_result = Unset

\* The coroutine runs up to its next await: it calls the HTTP client.
method_calls_http_client ==
    /\ fc_pc = "running"
    /\ http_calls_of(fc_call, fc_responses) # <<>>
    /\ fc_http_calls' = fc_http_calls \o http_calls_of(fc_call, fc_responses)
    /\ fc_pc' = "awaiting"
    /\ UNCHANGED <<fc_call, fc_responses, fc_result>>
    /\ UNCHANGED <<pa_vars, pt_vars, up_vars, rq_vars, sc_vars, rl_vars, ht_vars, ls_vars>>

\* The await returns the response of the server.
http_client_responds ==
    /\ fc_pc = "awaiting"
    /\ \E answers \in ResponsesToAll(http_calls_of(fc_call, fc_responses)) :
          fc_responses' = Append(fc_responses, answers)
    /\ fc_pc' = "running"
    /\ UNCHANGED <<fc_call, fc_http_calls, fc_result>>
    /\ UNCHANGED <<pa_vars, pt_vars, up_vars, rq_vars, sc_vars, rl_vars, ht_vars, ls_vars>>

\* The await raises what the HTTP client raised: the method has no handler.
http_client_raises ==
    /\ fc_pc = "awaiting"
    /\ fc_pc' = "raised"
    /\ fc_result' = Raised("APIClientError")
    /\ UNCHANGED <<fc_call, fc_http_calls, fc_responses>>
    /\ UNCHANGED <<pa_vars, pt_vars, up_vars, rq_vars, sc_vars, rl_vars, ht_vars, ls_vars>>

\* The coroutine runs to its return statement.
method_returns ==
    /\ fc_pc = "running"
    /\ http_calls_of(fc_call, fc_responses) = <<>>
    /\ fc_result' = result_of(fc_call, fc_responses)
    /\ fc_pc' = "done"
    /\ UNCHANGED <<fc_call, fc_http_calls, fc_responses>>
    /\ UNCHANGED <<pa_vars, pt_vars, up_vars, rq_vars, sc_vars, rl_vars, ht_vars, ls_vars>>

ClientMethodNext ==
    \/ method_calls_http_client
    \/ http_client_responds
    \/ http_client_raises
    \/ method_returns

-----------------------------------------------------------------------------
(* The list_* methods of the client *)

(* A list method is an asynchronous generator over the asynchronous        *)
(* generator self._http_client.fetch_all(...).  Nothing of its body runs   *)
(* before the consumer asks for the first item; each time the consumer     *)
(* asks, the body runs up to its next yield, its return or an exception.   *)

PyTuple(items) == [tuple |-> items]

\* The generators over fetch_all, with the resource and the parameters of each:
\*   "ordering"    (ordering=(), **filters)
\*   "filters"     (**filters)
\*   "annotations" (ordering=(), sideloads=(), content_schema_ids=(), **filters)
\*   "engines"     (ordering=(), sideloads=(), **filters)
\*   "engine_id"   (engine_id)
ListMethods ==
    [list_queues             |-> [resource |-> "Queue",             params |-> "ordering"],
     list_organizations      |-> [resource |-> "Organization",      params |-> "ordering"],
     list_organization_groups |-> [resource |-> "OrganizationGroup", params |-> "ordering"],
     list_schemas            |-> [resource |-> "Schema",            params |-> "ordering"],
     list_users              |-> [resource |-> "User",              params |-> "ordering"],
     list_annotations        |-> [resource |-> "Annotation",        params |-> "annotations"],
     list_document_relations |-> [resource |-> "DocumentRelation",  params |-> "ordering"],
     list_relations          |-> [resource |-> "Relation",          params |-> "ordering"],
     list_workspaces         |-> [resource |-> "Workspace",         params |-> "ordering"],
     list_engines            |-> [resource |-> "Engine",            params |-> "engines"],
     retrieve_engine_fields  |-> [resource |-> "EngineField",       params |-> "engine_id"],
     retrieve_engine_queues  |-> [resource |-> "Queue",             params |-> "engine_id"],
     list_email_templates    |-> [resource |-> "EmailTemplate",     params |-> "ordering"],
     list_connectors         |-> [resource |-> "Connector",         params |-> "ordering"],
     list_hooks              |-> [resource |-> "Hook",              params |-> "ordering"],
     list_hook_run_data      |-> [resource |-> "HookRunData",       params |-> "filters"],
     list_hook_templates     |-> [resource |-> "HookTemplate",      params |-> "filters"],
     list_rules              |-> [resource |-> "Rule",              params |-> "ordering"],
     list_user_roles         |-> [resource |-> "Group",             params |-> "ordering"]]

\* fetch_all called with an ordering of its own and one filter less.
fetch_all_call_with_default_ordering(call) ==
    HttpCall("fetch_all", <<Resource(ListMethods[call.method].resource), PyTuple(<<>>)>>,
             IF DOMAIN call.filters = {} THEN call.filters
             ELSE LET dropped == CHOOSE key \in DOMAIN call.filters : TRUE
                  IN  [key \in DOMAIN call.filters \ {dropped} |-> call.filters[key]])

\* The call of self._http_client.fetch_all the method makes: the positional
\* arguments and the keyword arguments.
fetch_all_call(call) ==
    LET params == ListMethods[call.method].params
        resource == Resource(ListMethods[call.method].resource)
    IN
    CASE params = "ordering" ->
            HttpCall("fetch_all", <<resource, PyTuple(call.ordering)>>, call.filters)
      [] params = "filters" ->
            HttpCall("fetch_all", <<resource>>, call.filters)
      [] params = "annotations" ->
            HttpCall("fetch_all",
                     <<resource, PyTuple(call.ordering), PyTuple(call.sideloads),
                       PyTuple(call.content_schema_ids)>>,
                     call.filters)
      [] params = "engines" ->
            HttpCall("fetch_all",
                     <<resource, PyTuple(call.ordering), PyTuple(call.sideloads)>>,
                     call.filters)
      [] params = "engine_id" ->
            HttpCall("fetch_all", <<resource>>, [engine |-> call.engine_id])

\* domain_logic.annotations.validate_list_annotations_params: the content of
\* the annotations is sideloaded only for given schema ids.
validate_list_annotations_params(sideloads, content_schema_ids) ==
    IF (\E i \in DOMAIN sideloads : sideloads[i] = "content") /\ content_schema_ids = <<>>
    THEN Raised("ValueError")
    ELSE None

\* What the body raises before it calls fetch_all, or None.
raised_before_fetch(call) ==
    IF call.method = "list_annotations"
    THEN validate_list_annotations_params(call.sideloads, call.content_schema_ids)
    ELSE None

\* One turn of the loop, deserializing every record left of the fetch.
next_items_of_all_records(call, records, fetched) ==
    [k \in 1..(Len(records) - fetched) |->
        deserializer(ListMethods[call.method].resource, records[fetched + k])]

\* One turn of the loop `async for x in fetch_all(...): yield deserializer(R, x)`:
\* the objects built from the record the fetch has produced.
next_items(call, records, fetched) ==
    <<deserializer(ListMethods[call.method].resource, records[fetched + 1])>>

\* The arguments callers give.
Orderings == {"id", "-name"}
RecordJsons == {[id |-> 1], [id |-> 2]}
ContentSchemaIds == {<<>>, <<"invoice_id">>}
Filters ==
    {NoKwargs,
     [parent |-> PyInt(123)],
     [key |-> None],
     [type |-> PyStr("edit"), parent |-> PyInt(123), key |-> None]}

\* The calls of a method: an argument the method does not have is the empty
\* tuple, no filters, None.
ListCallsOf(method) ==
    LET params == ListMethods[method].params IN
    [method             : {method},
     ordering           : IF params \in {"ordering", "annotations", "engines"}
                          THEN SeqsUpTo(Orderings, MaxOrdering) ELSE {<<>>},
     sideloads          : IF params \in {"annotations", "engines"}
                          THEN SeqsUpTo(Sideloads, MaxSideloads) ELSE {<<>>},
     content_schema_ids : IF params = "annotations" THEN ContentSchemaIds ELSE {<<>>},
     filters            : IF params = "engine_id" THEN {NoKwargs} ELSE Filters,
     engine_id          : IF params = "engine_id"
                          THEN {PyInt(n) : n \in CallerIds} ELSE {None}]

ls_Idle ==
    /\ ls_call = Unset
    /\ ls_pc = "idle"
    /\ ls_fetch_all_calls = <<>>
    /\ ls_records = <<>>
    /\ ls_fetched = 0
    /\ ls_deserialized = <<>>
    /\ ls_yielded = <<>>
    /\ ls_asked = 0

\* The method has been called: the generator exists, its body has not started.
ls_Init ==
    /\ ls_call \in UNION {ListCallsOf(method) : method \in DOMAIN ListMethods}
    /\ ls_pc = "created"
    /\ ls_fetch_all_calls = <<>>
    /\ ls_records \in SeqsUpTo(RecordJsons, MaxRecords)
    /\ ls_fetched = 0
    /\ ls_deserialized = <<>>
    /\ ls_yielded = <<>>
    /\ ls_asked = 0

\* The calls of fetch_all once the body has run up to the loop: the call is
\* made when the body starts.
fetch_all_calls_after_start ==
    IF ls_pc = "created" THEN <<fetch_all_call(ls_call)>> ELSE ls_fetch_all_calls

\* The consumer asks for an item and list_annotations raises before the fetch.
list_raises_before_fetch ==
    /\ ls_pc = "created"
    /\ raised_before_fetch(ls_call) # None
    /\ ls_asked' = ls_asked + 1
    /\ ls_pc' = "raised"
    /\ UNCHANGED <<ls_call, ls_fetch_all_calls, ls_records, ls_fetched, ls_deserialized,
                   ls_yielded>>
    /\ UNCHANGED <<pa_vars, pt_vars, up_vars, rq_vars, sc_vars, rl_vars, ht_vars, fc_vars>>

\* The consumer asks for an item: the body runs to its yield, with the next
\* record of the fetch.
list_yields ==
    /\ ls_pc \in {"created", "suspended"}
    /\ raised_before_fetch(ls_call) = None
    /\ ls_fetched < Len(ls_records)
    /\ ls_asked' = ls_asked + 1
    /\ ls_fetch_all_calls' = fetch_all_calls_after_start
    /\ ls_fetched' = ls_fetched + 1
    /\ LET items == next_items(ls_call, ls_records, ls_fetched)
       IN  /\ ls_deserialized' = ls_deserialized \o items
           /\ ls_yielded' = Append(ls_yielded, items[1])
    /\ ls_pc' = "suspended"
    /\ UNCHANGED <<ls_call, ls_records>>
    /\ UNCHANGED <<pa_vars, pt_vars, up_vars, rq_vars, sc_vars, rl_vars, ht_vars, fc_vars>>

\* The consumer asks for an item and the fetch is exhausted: the loop ends
\* and the generator returns.
list_ends ==
    /\ ls_pc \in {"created", "suspended"}
    /\ raised_before_fetch(ls_call) = None
    /\ ls_fetched = Len(ls_records)
    /\ ls_asked' = ls_asked + 1
    /\ ls_fetch_all_calls' = fetch_all_calls_after_start
    /\ ls_pc' = "done"
    /\ UNCHANGED <<ls_call, ls_records, ls_fetched, ls_deserialized, ls_yielded>>
    /\ UNCHANGED <<pa_vars, pt_vars, up_vars, rq_vars, sc_vars, rl_vars, ht_vars, fc_vars>>

\* The consumer asks for an item and the fetch raises, a request having
\* failed: the generator raises the same.
list_raises_from_fetch ==
    /\ ls_pc \in {"created", "suspended"}
    /\ raised_before_fetch(ls_call) = None
    /\ ls_asked' = ls_asked + 1
    /\ ls_fetch_all_calls' = fetch_all_calls_after_start
    /\ ls_pc' = "raised"
    /\ UNCHANGED <<ls_call, ls_records, ls_fetched, ls_deserialized, ls_yielded>>
    /\ UNCHANGED <<pa_vars, pt_vars, up_vars, rq_vars, sc_vars, rl_vars, ht_vars, fc_vars>>

ListNext ==
    \/ list_raises_before_fetch
    \/ list_yields
    \/ list_ends
    \/ list_raises_from_fetch

-----------------------------------------------------------------------------
(* Specifications *)

InitPollAnnotation == pa_Init /\ pt_Idle /\ up_Idle /\ rq_Idle /\ sc_Idle /\ rl_Idle /\ ht_Idle /\ fc_Idle /\ ls_Idle

\* One call of poll_annotation against a server that changes the annotation.
SpecPollAnnotation == InitPollAnnotation /\ [][PollAnnotationNext]_vars

InitPollTask == pa_Idle /\ pt_Init /\ up_Idle /\ rq_Idle /\ sc_Idle /\ rl_Idle /\ ht_Idle /\ fc_Idle /\ ls_Idle

\* One call of poll_task against a server that changes the task.
SpecPollTask == InitPollTask /\ [][PollTaskNext]_vars

\* The same, on an event loop that runs every ready coroutine.
FairSpecPollTask == SpecPollTask /\ WF_vars(PollTaskSteps)

InitUpload == pa_Idle /\ pt_Idle /\ up_Init /\ rq_Idle /\ sc_Idle /\ rl_Idle /\ ht_Idle /\ fc_Idle /\ ls_Idle

\* One call of import_document or upload_document.
SpecUpload == InitUpload /\ [][UploadNext]_vars

InitRetry == pa_Idle /\ pt_Idle /\ up_Idle /\ rq_Init /\ sc_Idle /\ rl_Idle /\ ht_Idle /\ fc_Idle /\ ls_Idle

\* A client is constructed and makes requests over a failing transport.
SpecRetry == InitRetry /\ [][RetryNext]_vars

InitTraverse == pa_Idle /\ pt_Idle /\ up_Idle /\ rq_Idle /\ sc_Init /\ rl_Idle /\ ht_Idle /\ fc_Idle /\ ls_Idle

\* The methods of a constructed schema are called, in any order.
SpecTraverse == InitTraverse /\ [][TraverseNext]_vars

InitFields == pa_Idle /\ pt_Idle /\ up_Idle /\ rq_Idle /\ fields_Init /\ rl_Idle /\ ht_Idle /\ fc_Idle /\ ls_Idle

SpecFields == InitFields /\ [][FieldsNext]_vars

InitSchema ==
    /\ (sc_Init \/ serde_Init)
    /\ pa_Idle /\ pt_Idle /\ up_Idle /\ rq_Idle /\ rl_Idle /\ ht_Idle /\ fc_Idle /\ ls_Idle

SchemaNext ==
    \/ TraverseNext
    \/ FieldsNext
    \/ SerdeNext
    \/ \E key \in ExtraKeys : call_from_dict_with_key(key)

SpecSchema == InitSchema /\ [][SchemaNext]_vars

InitFromDict ==
    /\ ((serde_Init /\ rl_Idle) \/ (sc_Idle /\ rl_Init))
    /\ pa_Idle /\ pt_Idle /\ up_Idle /\ rq_Idle /\ ht_Idle /\ fc_Idle /\ ls_Idle

FromDictNext == SerdeNext \/ RuleNext

SpecFromDict == InitFromDict /\ [][FromDictNext]_vars

InitSerde == pa_Idle /\ pt_Idle /\ up_Idle /\ rq_Idle /\ serde_Init /\ rl_Idle /\ ht_Idle /\ fc_Idle /\ ls_Idle

\* A constructed schema is serialized and deserialized.
SpecSerde == InitSerde /\ [][SerdeNext]_vars

InitRule == pa_Idle /\ pt_Idle /\ up_Idle /\ rq_Idle /\ sc_Idle /\ rl_Init /\ ht_Idle /\ fc_Idle /\ ls_Idle

\* A rule dict is deserialized.
SpecRule == InitRule /\ [][RuleNext]_vars

InitHookTemplate == pa_Idle /\ pt_Idle /\ up_Idle /\ rq_Idle /\ sc_Idle /\ rl_Idle /\ ht_Init /\ fc_Idle /\ ls_Idle

\* A hook template is constructed.
SpecHookTemplate == InitHookTemplate /\ [][HookTemplateNext]_vars

InitClientMethod == pa_Idle /\ pt_Idle /\ up_Idle /\ rq_Idle /\ sc_Idle /\ rl_Idle /\ ht_Idle /\ fc_Init /\ ls_Idle

\* One call of a retrieve, create, update or delete method of the client.
SpecClientMethod == InitClientMethod /\ [][ClientMethodNext]_vars

InitList == pa_Idle /\ pt_Idle /\ up_Idle /\ rq_Idle /\ sc_Idle /\ rl_Idle /\ ht_Idle /\ fc_Idle /\ ls_Init

\* One call of a list method of the client, and a consumer of its items.
SpecList == InitList /\ [][ListNext]_vars

InitPolling ==
    /\ \/ pa_Init /\ pt_Idle
       \/ pa_Idle /\ pt_Init
    /\ up_Idle /\ rq_Idle /\ sc_Idle /\ rl_Idle /\ ht_Idle /\ fc_Idle /\ ls_Idle

PollingNext ==
    \/ PollAnnotationNext
    \/ PollTaskNext

InitRetrieveAnnotation == pa_InitRetrieveAnnotation /\ pt_Idle /\ up_Idle /\ rq_Idle /\ sc_Idle /\ rl_Idle /\ ht_Idle /\ fc_Idle /\ ls_Idle

\* One call of retrieve_annotation against a server that changes the annotation.
SpecRetrieveAnnotation == InitRetrieveAnnotation /\ [][RetrieveAnnotationNext]_vars

\* One call of poll_annotation or one call of poll_task.
SpecPolling == InitPolling /\ [][PollingNext]_vars

-----------------------------------------------------------------------------
(* Claims about the polling loops *)

AnnotationKeys == {"id", "status", "document", "modifier", "content"}
SideloadedKeys == {to_singular(pa_sideloads[i]) : i \in DOMAIN pa_sideloads}

\* C1: whenever poll_annotation returns, the predicate was true on the
\* deserialization of the annotation JSON fetched last, the returned
\* annotation is built from that JSON (every key that was not sideloaded has
\* the fetched value, and a sideloaded key is None exactly when the fetched
\* URL was None), and the annotation is never fetched again once the
\* predicate has returned true.
C1_PollAnnotationReturnsOnTruePredicate ==
    /\ ~pa_log.fetch_after_true
    /\ pa_pc = "done" =>
          /\ predicate(pa_predicate, deserializer("Annotation", pa_log.last_fetched))
          /\ pa_result.cls = "Annotation"
          /\ \A k \in AnnotationKeys \ SideloadedKeys :
                pa_result.data[k] = pa_log.last_fetched[k]
          /\ \A k \in SideloadedKeys :
                (pa_result.data[k] = None) <=> (pa_log.last_fetched[k] = None)

\* C1 witness: a call that needed several rounds has returned, and the server
\* has changed the annotation since the last fetch.
C1_Witness ==
    /\ pa_pc = "done"
    /\ pa_log.rounds = 2
    /\ srv_annotation.status \notin pa_predicate
    /\ pa_result.data.status \in pa_predicate

\* C2: in poll_annotation no sideload request is issued before the predicate
\* has returned true, and over the whole call at most one request is issued
\* per requested sideload, whatever the number of polling rounds.
C2_SideloadOnceAfterPredicate ==
    /\ ~pa_log.request_early
    /\ \A i \in DOMAIN pa_log.requests : pa_log.requests[i] <= 1
    /\ (\E i \in DOMAIN pa_log.requests : pa_log.requests[i] > 0) => pa_log.pred_true

\* C2 witness: a call with sideloads that polled more than once has returned
\* after requesting every sideload.
C2_Witness ==
    /\ pa_pc = "done"
    /\ pa_log.rounds = 2
    /\ Len(pa_sideloads) = 2
    /\ \A i \in DOMAIN pa_log.requests : pa_log.requests[i] = 1

\* C3: poll_task has no retry limit.  It returns only a task that satisfies
\* the predicate, the one retrieved last; it raises only when a retrieve_task
\* raised; while every retrieved task fails the predicate and every retrieval
\* succeeds it sleeps again and again; and if the task eventually satisfies
\* the predicate for good (and no retrieval fails), poll_task returns.
C3_PollTaskNoRetryLimit ==
    /\ [](pt_pc = "done" =>
            /\ predicate(pt_predicate, pt_result)
            /\ pt_result = deserializer("Task", pt_log.last_retrieved))
    /\ [](pt_pc = "raised" => pt_log.retrieve_failed)
    /\ ([](srv_task \notin pt_predicate) /\ [](~pt_log.retrieve_failed))
          => ([](pt_pc # "done") /\ []<>(pt_pc = "sleep"))
    /\ (<>[](srv_task \in pt_predicate) /\ [](~pt_log.retrieve_failed))
          => <>(pt_pc = "done")

\* C3 witness: poll_task has returned after at least one sleep.
C3_Witness ==
    /\ pt_pc = "done"
    /\ pt_log.slept
    /\ predicate(pt_predicate, pt_result)

-----------------------------------------------------------------------------
(* Claims about the upload fan-out *)

\* The id of the server object (annotation or task) a result entry names.
ResultId(entry) == IF up_op = "import_document" THEN entry ELSE entry.data.id

\* The upload request that created the object a result entry names.
RequestOf(entry) ==
    srv_uploads[ResultId(entry) - (IF up_op = "import_document" THEN AnnotationIdOf(0)
                                                                 ELSE TaskIdOf(0))]

\* C4: import_document and upload_document start one task per (file,
\* filename) pair, and the list they return has one entry per pair, entry i
\* naming the object the server created from files[i], whatever the order in
\* which the requests arrived and the tasks completed.
C4_UploadResultsInFilesOrder ==
    /\ up_pc \in {"gather", "done", "raised"} => Len(upload_tasks) = Len(up_files)
    /\ up_pc = "done" =>
          /\ Len(up_result) = Len(up_files)
          /\ \A i \in DOMAIN up_files :
                /\ RequestOf(up_result[i]).body.content[1] = up_files[i][2]
                /\ RequestOf(up_result[i]).body.content[2] = FileContent(up_files[i][1])

\* C4 witness: two different files were uploaded, the request of the second
\* arrived first and the second task completed first, and the call returned.
C4_Witness ==
    /\ up_pc = "done"
    /\ Len(up_files) = 2
    /\ up_files[1] # up_files[2]
    /\ upload_tasks[2].sent = 1
    /\ up_completed = <<2, 1>>

-----------------------------------------------------------------------------
(* Claims about the retries *)

\* C5: a request that keeps failing transiently is retried at most n_retries
\* times, n_retries being the caller's argument or 3 by default, and is then
\* raised to the caller: no retry is ever pending beyond that number.
C5_RetriesBounded ==
    /\ [](/\ ~client_args.n_retries_given => client_args.n_retries = 3
          /\ rq_retries <= client_args.n_retries
          /\ rq_pc = "backoff" => rq_retries < client_args.n_retries)
    /\ [][(rq_pc = "attempt" /\ rq_failure' = "transient"
                             /\ rq_retries >= client_args.n_retries)
            => rq_pc' = "raised"]_vars

\* C5 witness: with the default n_retries, a request was raised after its
\* retries were used up.
C5_Witness ==
    /\ ~client_args.n_retries_given
    /\ rq_pc = "raised"
    /\ rq_failure = "transient"
    /\ rq_retries = 3

-----------------------------------------------------------------------------
(* Claims about the traversal of the schema tree *)

\* The nodes directly below a node, each with its place.
ChildNodes(n) ==
    CASE n.node.cls \in {"Section", "Tuple"} ->
           {Yield(Append(n.at, i), n.node.children[i]) : i \in DOMAIN n.node.children}
      [] n.node.cls = "Multivalue" -> {Yield(Append(n.at, 1), n.node.children)}
      [] OTHER -> {}

RECURSIVE WithDescendants(_)
WithDescendants(ns) ==
    IF ns = {} THEN {} ELSE ns \cup WithDescendants(UNION {ChildNodes(n) : n \in ns})

\* Every node reachable from schema.content, sections included.
SchemaNodes == WithDescendants({Yield(<<i>>, schema.content[i]) : i \in DOMAIN schema.content})

IsButton(n) == n.node.cls = "Datapoint" /\ is_button(n.node)
IsSection(n) == n.node.cls = "Section"

\* How often an item occurs in a list of yielded items.
Occurrences(items, n) == Cardinality({k \in DOMAIN items : items[k] = n})

\* C6: schema.traverse() yields every multivalue, every tuple and every
\* datapoint that is not a button, each exactly once, and yields nothing
\* else: no section, not the schema, no node from elsewhere.
C6_TraverseYieldsAllNodes ==
    (sc_call.op = "traverse" /\ sc_call.ignore_buttons) =>
        /\ \A n \in SchemaNodes :
              (~IsSection(n) /\ ~IsButton(n)) => Occurrences(sc_result, n) = 1
        /\ \A k \in DOMAIN sc_result :
              /\ sc_result[k].node.cls \notin {"Section", "Schema"}
              /\ sc_result[k] \in SchemaNodes

\* C6 witness: a schema with a section, a multivalue, its tuple and a
\* datapoint in it was traversed.
C6_Witness ==
    /\ sc_call.op = "traverse"
    /\ sc_call.ignore_buttons
    /\ Len(sc_result) = 3
    /\ sc_result[1].node.cls = "Multivalue"
    /\ sc_result[2].node.cls = "Tuple"
    /\ sc_result[3].node.cls = "Datapoint"

NonButtons(items) == SelectSeq(items, LAMBDA x : ~IsButton(x))

\* C7: with ignore_buttons=True no button datapoint is yielded, at any depth;
\* with ignore_buttons=False every button datapoint is yielded once; the
\* other nodes are yielded the same, in the same order, in both modes.
C7_TraverseIgnoresButtons ==
    sc_call.op = "traverse" =>
        /\ sc_call.ignore_buttons => \A k \in DOMAIN sc_result : ~IsButton(sc_result[k])
        /\ ~sc_call.ignore_buttons =>
              \A n \in SchemaNodes : IsButton(n) => Occurrences(sc_result, n) = 1
        /\ NonButtons(sc_result)
             = NonButtons(Schema_traverse(schema, ~sc_call.ignore_buttons))

\* C7 witness: a traversal with ignore_buttons=False has yielded a button
\* that is the child of a multivalue and a button inside a tuple.
C7_Witness ==
    /\ sc_call.op = "traverse"
    /\ ~sc_call.ignore_buttons
    /\ \E k \in DOMAIN sc_result : IsButton(sc_result[k]) /\ Len(sc_result[k].at) = 3
    /\ \E k \in DOMAIN sc_result :
          /\ sc_result[k].node.cls = "Tuple"
          /\ \E i \in DOMAIN sc_result[k].node.children :
                is_button(sc_result[k].node.children[i])

\* C8: get_by_id(node_id) returns a node with that id whenever a section, a
\* multivalue, a tuple or a datapoint that is not a button has the id, and
\* returns None only when none has.
C8_GetByIdFindsEveryNode ==
    (sc_call.op = "get_by_id" /\ sc_call.ignore_buttons) =>
        LET having == {n \in SchemaNodes : n.node.id = sc_call.node_id /\ ~IsButton(n)}
        IN  /\ having # {} => (sc_result # None /\ sc_result.node.id = sc_call.node_id)
            /\ sc_result = None => having = {}

\* C9: for a button datapoint whose id no other node has, get_by_id(id)
\* returns None with ignore_buttons=True and that datapoint with
\* ignore_buttons=False.
C9_GetByIdRespectsIgnoreButtons ==
    sc_call.op = "get_by_id" =>
        \A n \in SchemaNodes :
            (/\ IsButton(n)
             /\ n.node.id = sc_call.node_id
             /\ \A m \in SchemaNodes \ {n} : m.node.id # sc_call.node_id)
            => IF sc_call.ignore_buttons THEN sc_result = None ELSE sc_result = n

\* C9 witness: get_by_id with ignore_buttons=False has returned a button
\* that sits in a tuple and whose id no other node has.
C9_Witness ==
    /\ sc_call.op = "get_by_id"
    /\ ~sc_call.ignore_buttons
    /\ sc_result # None
    /\ IsButton(sc_result)
    /\ Len(sc_result.at) >= 3
    /\ \A m \in SchemaNodes \ {sc_result} : m.node.id # sc_call.node_id

-----------------------------------------------------------------------------
(* Claims about the serialization of the schema tree *)

\* C10: for every schema of Datapoint, Multivalue, Tuple and Section nodes,
\* Schema.from_dict(asdict(schema)) equals the schema.
C10_RoundTrip ==
    sc_call.op = "roundtrip" => sc_result = schema

\* The same for the schemas whose nodes all have the category of their class.
RoundTripOfDefaultCategories ==
    (/\ sc_call.op = "roundtrip"
     /\ \A n \in SchemaNodes : n.node.category = default_category(n.node.cls))
    => sc_result = schema

\* A round trip has raised.
RoundTripRaises == sc_call.op = "roundtrip" /\ IsRaised(sc_result)

\* A round trip has returned a schema that is not the one given.
RoundTripDiffers ==
    sc_call.op = "roundtrip" /\ ~IsRaised(sc_result) /\ sc_result # schema

\* The dict the last call has deserialized.
SerdeInput ==
    IF sc_call.op = "roundtrip" THEN asdict(schema) ELSE sc_call.data

SerdeReturned ==
    sc_call.op \in {"roundtrip", "from_dict"} /\ ~IsRaised(sc_result)

\* The class the category of a child dict stands for, under each parent.
ClassOfCategory(parent, category) ==
    CASE parent = "Tuple" -> {"Datapoint"}
      [] parent = "Multivalue" /\ category = "tuple" -> {"Tuple"}
      [] parent = "Multivalue" /\ category = "datapoint" -> {"Datapoint"}
      [] parent = "Section" /\ category = "datapoint" -> {"Datapoint"}
      [] parent = "Section" /\ category = "multivalue" -> {"Multivalue"}
      [] parent = "Section" /\ category = "tuple" -> {"Tuple"}
      [] OTHER -> {"Datapoint", "Multivalue", "Tuple"}

\* The node built from the child dict has the class of the dict's category
\* and the dict's id, and so have the nodes below it, place by place.
RECURSIVE BuiltByCategory(_, _, _)
BuiltByCategory(parent, node, data) ==
    /\ node.cls \in ClassOfCategory(parent, get(data, "category", ""))
    /\ node.id = data.id
    /\ node.cls = "Multivalue" =>
          BuiltByCategory("Multivalue", node.children, data.children)
    /\ node.cls = "Tuple" =>
          LET children_data == get(data, "children", JList(<<>>)).list
          IN  /\ Len(node.children) = Len(children_data)
              /\ \A i \in DOMAIN children_data :
                    BuiltByCategory("Tuple", node.children[i], children_data[i])

SectionBuiltByCategory(section, data) ==
    LET children_data == get(data, "children", JList(<<>>)).list
    IN  /\ section.cls = "Section"
        /\ section.id = data.id
        /\ Len(section.children) = Len(children_data)
        /\ \A i \in DOMAIN children_data :
              BuiltByCategory("Section", section.children[i], children_data[i])

\* C11: in the schema that from_dict returns, every child of a section is
\* the Datapoint, Multivalue or Tuple that the category of its dict names,
\* the child of a multivalue the Tuple or Datapoint that its category names,
\* every child of a tuple a Datapoint, at every depth, and the children
\* stand in the order of their dicts.
C11_ClassByCategory ==
    SerdeReturned =>
        LET content_data == get(SerdeInput, "content", JList(<<>>)).list
        IN  /\ Len(sc_result.content) = Len(content_data)
            /\ \A i \in DOMAIN content_data :
                  SectionBuiltByCategory(sc_result.content[i], content_data[i])

\* C11 witness: the schema of the tests was deserialized from its dict; the
\* second section holds a Multivalue of a Tuple of two Datapoints in the
\* order of the dict.
C11_Witness ==
    /\ sc_call.op = "roundtrip"
    /\ schema = boring_schema
    /\ ~IsRaised(sc_result)
    /\ sc_result.content[2].children[1].cls = "Multivalue"
    /\ sc_result.content[2].children[1].children.cls = "Tuple"
    /\ sc_result.content[2].children[1].children.children[1].cls = "Datapoint"
    /\ sc_result.content[2].children[1].children.children[1].id = "item_description"
    /\ sc_result.content[2].children[1].children.children[2].id = "item_amount"

\* Every node of a schema, sections included, each with its place.
NodesOf(s) == WithDescendants({Yield(<<i>>, s.content[i]) : i \in DOMAIN s.content})

HasCategoryOfClass(n) == n.node.category = default_category(n.node.cls)

\* C12: every node has the category of its class, in the schema a caller
\* has constructed and in the schema that from_dict has returned.
C12_CategoryIsOfClass ==
    /\ schema # Unset => \A n \in NodesOf(schema) : HasCategoryOfClass(n)
    /\ SerdeReturned => \A n \in NodesOf(sc_result) : HasCategoryOfClass(n)

\* The same for the nodes that from_dict has built, whatever the caller
\* has constructed.
CategoryIsOfClassFromDict ==
    SerdeReturned => \A n \in NodesOf(sc_result) : HasCategoryOfClass(n)

-----------------------------------------------------------------------------
(* Claims about the rules *)

\* The action dicts of the rule dict that was given.
InputActions == get(rule_data, "actions", JList(<<>>)).list

RuleCalled == rule_result # Unset
RuleReturned == RuleCalled /\ ~IsRaised(rule_result)

\* The payload class that stands for an action type other than custom.
PayloadClassOfType(action_type) ==
    CASE action_type = "show_message" -> "ShowMessagePayload"
      [] action_type = "add_automation_blocker" -> "AddAutomationBlockerPayload"
      [] action_type = "change_status" -> "ChangeStatusPayload"
      [] action_type = "change_queue" -> "ChangeQueuePayload"
      [] action_type = "add_label" -> "LabelsPayload"
      [] action_type = "remove_label" -> "LabelsPayload"
      [] action_type = "add_remove_label" -> "LabelsPayload"
      [] action_type = "show_field" -> "SchemaIdsPayload"
      [] action_type = "hide_field" -> "SchemaIdsPayload"
      [] action_type = "show_hide_field" -> "SchemaIdsPayload"
      [] action_type = "add_validation_source" -> "AddValidationSourcePayload"
      [] action_type = "send_email" -> "SendEmailPayload"

\* C13: in the rule that from_dict returns, the payload of every action is an
\* object of the payload class of the action's type, and the payload of an
\* action of type custom is the payload dict that was given.
C13_PayloadClassByType ==
    RuleReturned =>
        \A i \in DOMAIN rule_result.actions :
            LET action == rule_result.actions[i]
                data == InputActions[i]
            IN  /\ action.type = data.type
                /\ IF data.type = "custom"
                   THEN action.payload = get(data, "payload", EmptyDict)
                   ELSE action.payload.cls = PayloadClassOfType(data.type)

\* C13 witness: a rule was returned whose first action is of type custom with
\* the payload dict of the tests and whose second is of type send_email with
\* a SendEmailPayload.
C13_Witness ==
    /\ RuleReturned
    /\ Len(rule_result.actions) = 2
    /\ rule_result.actions[1].type = "custom"
    /\ rule_result.actions[1].payload = TestPayload("custom")
    /\ rule_result.actions[2].type = "send_email"
    /\ rule_result.actions[2].payload.cls = "SendEmailPayload"

\* An action dict whose type is no action type.
HasUnknownType(data) == data.type \notin RuleActionTypes

\* The fields without a default of the payload class of an action type.
RequiredOfType(action_type) ==
    CASE action_type = "show_message" -> {"type", "content"}
      [] action_type = "add_automation_blocker" -> {"content"}
      [] action_type = "change_status" -> {"method"}
      [] action_type = "change_queue" -> {"queue_id"}
      [] action_type = "add_validation_source" -> {"schema_id"}
      [] OTHER -> {}

\* An action dict of a known type whose payload lacks a required field.
LacksRequiredField(data) ==
    /\ ~HasUnknownType(data)
    /\ \E f \in RequiredOfType(data.type) : f \notin DOMAIN get(data, "payload", EmptyDict)

\* An action dict whose payload holds a value that its field does not allow.
HasWrongValue(data) ==
    LET payload == get(data, "payload", EmptyDict)
    IN  \/ data.type = "show_message" /\ "type" \in DOMAIN payload
           /\ payload.type \notin {"error", "warning", "info"}
        \/ data.type = "change_status" /\ "method" \in DOMAIN payload
           /\ payload.method \notin {"postpone", "export", "delete", "confirm", "reject"}

\* An action dict that has all it needs.
IsGoodAction(data) ==
    /\ {"id", "type", "event"} \subseteq DOMAIN data
    /\ ~HasUnknownType(data)
    /\ ~LacksRequiredField(data)
    /\ ~HasWrongValue(data)

\* C14, as the claim states it: whenever an action has an unknown type
\* Rule.from_dict raises KeyError, and whenever the payload of an action lacks
\* a required field it raises MissingValueError.
C14_AnyBadActionRaisesItsError ==
    RuleCalled =>
        /\ (\E i \in DOMAIN InputActions : HasUnknownType(InputActions[i]))
              => rule_result = Raised("KeyError")
        /\ (\E i \in DOMAIN InputActions : LacksRequiredField(InputActions[i]))
              => rule_result = Raised("MissingValueError")

\* C14, amended: Rule.from_dict returns no Rule when an action has an unknown
\* type or a payload that lacks a required field, and it raises the error of
\* the first action in the list that is not good: KeyError when the type of
\* that action is unknown, MissingValueError when its payload lacks a required
\* field and holds no value that its field does not allow.
C14_FirstBadActionRaises ==
    RuleCalled =>
        \A i \in DOMAIN InputActions :
            LET data == InputActions[i]
                first == \A j \in 1..(i - 1) : IsGoodAction(InputActions[j])
            IN  /\ (HasUnknownType(data) \/ LacksRequiredField(data))
                      => IsRaised(rule_result)
                /\ (first /\ HasUnknownType(data))
                      => rule_result = Raised("KeyError")
                /\ (first /\ LacksRequiredField(data) /\ ~HasWrongValue(data))
                      => rule_result = Raised("MissingValueError")

\* C14 witness: the payload of the first action lacks a required field, the
\* second action has an unknown type, and MissingValueError was raised.
C14_Witness ==
    /\ RuleCalled
    /\ Len(InputActions) = 2
    /\ LacksRequiredField(InputActions[1])
    /\ ~HasWrongValue(InputActions[1])
    /\ HasUnknownType(InputActions[2])
    /\ rule_result = Raised("MissingValueError")

\* C15: the rule that from_dict returns has as many actions as the actions
\* list of the dict, none without the key, and action i has the id, the
\* type, the event and the payload class of the dict of action i.
C15_ActionsKeepOrder ==
    RuleReturned =>
        /\ Len(rule_result.actions) = Len(InputActions)
        /\ "actions" \notin DOMAIN rule_data => rule_result.actions = <<>>
        /\ \A i \in DOMAIN InputActions :
              LET action == rule_result.actions[i]
                  data == InputActions[i]
              IN  /\ action.id = data.id
                  /\ action.type = data.type
                  /\ action.event = data.event
                  /\ data.type # "custom" =>
                        action.payload.cls = PayloadClassOfType(data.type)

\* C15 witness: a rule of two actions was returned, a show_message and then
\* a change_status as in the test.
C15_Witness ==
    /\ RuleReturned
    /\ Len(InputActions) = 2
    /\ InputActions[1].type = "show_message"
    /\ InputActions[2].type = "change_status"
    /\ rule_result.actions[1].payload.cls = "ShowMessagePayload"
    /\ rule_result.actions[2].payload.cls = "ChangeStatusPayload"
    /\ rule_result.actions[1].id # rule_result.actions[2].id

\* A rule dict without the actions key has given a rule without actions.
NoActionsKeyGivesNoActions ==
    /\ RuleReturned
    /\ "actions" \notin DOMAIN rule_data
    /\ rule_result.actions = <<>>

-----------------------------------------------------------------------------
(* Claims about the hook templates *)

HookTemplateConstructed == hook_template # Unset

\* The number that the decimal digits ds write.
RECURSIVE Pow10(_)
Pow10(n) == IF n = 0 THEN 1 ELSE 10 * Pow10(n - 1)

RECURSIVE SumOver(_, _)
SumOver(ds, i) ==
    IF i > Len(ds) THEN 0
    ELSE DigitValue(ds[i]) * Pow10(Len(ds) - i) + SumOver(ds, i + 1)

\* url[i..j] is the last path segment of url, trailing slashes ignored, and
\* is an integer.
IsLastSegmentNumber(url, i, j) ==
    /\ i <= j
    /\ \A k \in i..j : IsDigit(url[k])
    /\ \A k \in (j + 1)..Len(url) : url[k] = "/"
    /\ i = 1 \/ url[i - 1] = "/"

\* C16: a HookTemplate created with id None has as id the integer in the last
\* path segment of its url, trailing slashes ignored; one created with an id
\* has that id, whatever its url.
C16_IdFromUrl ==
    HookTemplateConstructed =>
        /\ ht_args.id_given =>
              ~IsRaised(hook_template) /\ hook_template.id = ht_args.id
        /\ ~ht_args.id_given =>
              \A i, j \in DOMAIN ht_args.url :
                  IsLastSegmentNumber(ht_args.url, i, j) =>
                      /\ ~IsRaised(hook_template)
                      /\ hook_template.id = SumOver(SubSeq(ht_args.url, i, j), 1)

\* C16 witness: a template created with id None and a url that ends in
\* "/12/" has the id 12.
C16_Witness ==
    /\ HookTemplateConstructed
    /\ ~ht_args.id_given
    /\ ht_args.url = <<"/", "1", "2", "/">>
    /\ hook_template.id = 12

\* A template created with the id 100 and a url of another number has the
\* id 100.
GivenIdIsKept ==
    /\ HookTemplateConstructed
    /\ ht_args.id_given
    /\ ht_args.id = 100
    /\ ht_args.url = <<"x", "/", "2", "/">>
    /\ hook_template.id = 100

-----------------------------------------------------------------------------
(* Claims about the awaitable methods of the client *)

\* The method of the call in progress.
MethodCalled(method) == fc_pc # "idle" /\ fc_call.method = method

\* C17: retrieve_own_organization makes at most two requests, in this order:
\* fetch_one(Resource.Auth, "user") first and, only once its response has
\* arrived, fetch_one(Resource.Organization, id) with the id that is the last
\* segment of the user's 'organization' URL; when it returns it has made
\* both, and what it returns is the deserialization of the second response.
C17_OwnOrganizationInTwoRequests ==
    MethodCalled("retrieve_own_organization") =>
        /\ Len(fc_http_calls) <= 2
        /\ Len(fc_http_calls) >= 1 =>
              fc_http_calls[1] =
                  HttpCall("fetch_one", <<Resource("Auth"), PyStr("user")>>, NoKwargs)
        /\ Len(fc_http_calls) = 2 =>
              /\ Len(fc_responses) >= 1
              /\ LET url == fc_responses[1][1].organization
                     second == fc_http_calls[2]
                 IN  /\ second.op = "fetch_one"
                     /\ second.kwargs = NoKwargs
                     /\ Len(second.args) = 2
                     /\ second.args[1] = Resource("Organization")
                     /\ "int" \in DOMAIN second.args[2]
                     /\ ToString(second.args[2].int) = url.path[Len(url.path)]
        /\ fc_pc = "done" =>
              /\ Len(fc_http_calls) = 2
              /\ Len(fc_responses) = 2
              /\ fc_result = deserializer("Organization", fc_responses[2][1])

\* retrieve_own_organization has returned the organization 106 of the user.
C17_Witness ==
    /\ MethodCalled("retrieve_own_organization")
    /\ fc_pc = "done"
    /\ Len(fc_http_calls) = 2
    /\ fc_http_calls[2].args[2] = PyInt(106)
    /\ fc_result.cls = "Organization"

\* What the name of a method says: the operation and the kind of object.
NamedAfter ==
    [retrieve_queue                |-> [verb |-> "retrieve", noun |-> "Queue"],
     create_new_queue              |-> [verb |-> "create", noun |-> "Queue"],
     delete_queue                  |-> [verb |-> "delete", noun |-> "Queue"],
     retrieve_upload               |-> [verb |-> "retrieve", noun |-> "Upload"],
     retrieve_organization         |-> [verb |-> "retrieve", noun |-> "Organization"],
     retrieve_organization_group   |-> [verb |-> "retrieve", noun |-> "OrganizationGroup"],
     retrieve_schema               |-> [verb |-> "retrieve", noun |-> "Schema"],
     create_new_schema             |-> [verb |-> "create", noun |-> "Schema"],
     delete_schema                 |-> [verb |-> "delete", noun |-> "Schema"],
     retrieve_user                 |-> [verb |-> "retrieve", noun |-> "User"],
     create_new_user               |-> [verb |-> "create", noun |-> "User"],
     update_annotation             |-> [verb |-> "update", noun |-> "Annotation"],
     update_part_annotation        |-> [verb |-> "update", noun |-> "Annotation"],
     create_new_annotation         |-> [verb |-> "create", noun |-> "Annotation"],
     retrieve_document             |-> [verb |-> "retrieve", noun |-> "Document"],
     retrieve_document_relation    |-> [verb |-> "retrieve", noun |-> "DocumentRelation"],
     create_new_document_relation  |-> [verb |-> "create", noun |-> "DocumentRelation"],
     update_document_relation      |-> [verb |-> "update", noun |-> "DocumentRelation"],
     update_part_document_relation |-> [verb |-> "update", noun |-> "DocumentRelation"],
     delete_document_relation      |-> [verb |-> "delete", noun |-> "DocumentRelation"],
     create_new_relation           |-> [verb |-> "create", noun |-> "Relation"],
     retrieve_workspace            |-> [verb |-> "retrieve", noun |-> "Workspace"],
     create_new_workspace          |-> [verb |-> "create", noun |-> "Workspace"],
     delete_workspace              |-> [verb |-> "delete", noun |-> "Workspace"],
     retrieve_engine               |-> [verb |-> "retrieve", noun |-> "Engine"],
     create_new_inbox              |-> [verb |-> "create", noun |-> "Inbox"],
     retrieve_email                |-> [verb |-> "retrieve", noun |-> "Email"],
     retrieve_email_template       |-> [verb |-> "retrieve", noun |-> "EmailTemplate"],
     create_new_email_template     |-> [verb |-> "create", noun |-> "EmailTemplate"],
     retrieve_connector            |-> [verb |-> "retrieve", noun |-> "Connector"],
     create_new_connector          |-> [verb |-> "create", noun |-> "Connector"],
     retrieve_hook                 |-> [verb |-> "retrieve", noun |-> "Hook"],
     create_new_hook               |-> [verb |-> "create", noun |-> "Hook"],
     update_part_hook              |-> [verb |-> "update", noun |-> "Hook"],
     delete_hook                   |-> [verb |-> "delete", noun |-> "Hook"],
     retrieve_hook_template        |-> [verb |-> "retrieve", noun |-> "HookTemplate"],
     retrieve_rule                 |-> [verb |-> "retrieve", noun |-> "Rule"],
     create_new_rule               |-> [verb |-> "create", noun |-> "Rule"],
     update_part_rule              |-> [verb |-> "update", noun |-> "Rule"],
     delete_rule                   |-> [verb |-> "delete", noun |-> "Rule"],
     retrieve_own_organization     |-> [verb |-> "retrieve", noun |-> "Organization"],
     retrieve_organization_limit   |-> [verb |-> "retrieve", noun |-> "OrganizationLimit"],
     retrieve_annotation           |-> [verb |-> "retrieve", noun |-> "Annotation"],
     retrieve_task                 |-> [verb |-> "retrieve", noun |-> "Task"],
     delete_annotation             |-> [verb |-> "delete", noun |-> "Annotation"],
     retrieve_document_content     |-> [verb |-> "retrieve", noun |-> "Document"],
     create_new_document           |-> [verb |-> "create", noun |-> "Document"]]

\* The operation of the HTTP client that matches the verb of a name.
MatchingOperation(verb) == IF verb = "retrieve" THEN "fetch_one" ELSE verb

\* The arguments a caller gave that the method has: the id, the data.
CallerArguments ==
    (IF fc_call.id # None THEN <<fc_call.id>> ELSE <<>>)
    \o (IF fc_call.data # None THEN <<fc_call.data>> ELSE <<>>)

\* The method made one call of the operation `op` of the HTTP client with its
\* resource and the caller's arguments, and returned the deserialization of
\* the response, or None for a delete.
IsOneApiOperation(op, noun) ==
    /\ Len(fc_http_calls) = 1
    /\ fc_http_calls[1].op = op
    /\ fc_http_calls[1].args = <<Resource(noun)>> \o CallerArguments
    /\ Len(fc_responses) = 1
    /\ fc_result = IF op = "delete" THEN None
                   ELSE deserializer(noun, fc_responses[1][1])

MethodsOfSeveralOrOtherCalls ==
    {"retrieve_own_organization", "retrieve_organization_limit", "delete_annotation",
     "retrieve_document_content", "create_new_document"}

\* The methods that replace the whole object: they call `replace`.
ReplacingMethods == {"update_annotation", "update_document_relation"}

-----------------------------------------------------------------------------
(* Claims about the list methods of the client *)

\* C18: a list method yields one deserialized object per record of the
\* underlying fetch, in the order of the records; it has deserialized no
\* record but the ones it has yielded, so never more than the consumer has
\* asked for, and has taken no record from the fetch ahead of the consumer;
\* an iteration that has ended has yielded every record, and the one request
\* that gave no item is the one that ended it.
C18_OneItemPerRecordLazily ==
    ls_pc # "idle" =>
        /\ Len(ls_yielded) <= Len(ls_records)
        /\ \A k \in 1..Len(ls_yielded) :
              ls_yielded[k] = deserializer(ListMethods[ls_call.method].resource,
                                           ls_records[k])
        /\ ls_deserialized = ls_yielded
        /\ Len(ls_deserialized) <= ls_asked
        /\ ls_fetched = Len(ls_yielded)
        /\ ls_asked > Len(ls_yielded) => ls_pc \in {"done", "raised"}
        /\ ls_pc = "done" =>
              /\ Len(ls_yielded) = Len(ls_records)
              /\ ls_asked = Len(ls_records) + 1

\* list_rules has yielded two different records and ended.
C18_Witness ==
    /\ ls_pc = "done"
    /\ ls_call.method = "list_rules"
    /\ Len(ls_yielded) = 2
    /\ ls_yielded[1] # ls_yielded[2]
    /\ ls_asked = 3

\* A consumer that has asked for one item of two: the second record is
\* neither taken nor deserialized.
SecondRecordNotYetDeserialized ==
    /\ ls_pc = "suspended"
    /\ Len(ls_records) = 2
    /\ ls_asked = 1
    /\ Len(ls_deserialized) = 1

\* The methods named list_*, and the kind of object each lists.
ListedKind ==
    [list_queues              |-> "Queue",
     list_organizations       |-> "Organization",
     list_organization_groups |-> "OrganizationGroup",
     list_schemas             |-> "Schema",
     list_users               |-> "User",
     list_annotations         |-> "Annotation",
     list_document_relations  |-> "DocumentRelation",
     list_relations           |-> "Relation",
     list_workspaces          |-> "Workspace",
     list_engines             |-> "Engine",
     list_email_templates     |-> "EmailTemplate",
     list_connectors          |-> "Connector",
     list_hooks               |-> "Hook",
     list_hook_run_data       |-> "HookRunData",
     list_hook_templates      |-> "HookTemplate",
     list_rules               |-> "Rule",
     list_user_roles          |-> "Group"]

\* A list_* method whose body has started the fetch.
ListFetchStarted ==
    /\ ls_pc \in {"suspended", "done"}
    /\ ls_call.method \in DOMAIN ListedKind

\* C19, as stated: a list_* method calls fetch_all once, for its own
\* resource, with the caller's ordering (the empty tuple by default) as the
\* argument after the resource and with the caller's filters as the keyword
\* arguments, none added, dropped or altered.
C19_OrderingAndFiltersForwarded ==
    ListFetchStarted =>
        /\ Len(ls_fetch_all_calls) = 1
        /\ LET call == ls_fetch_all_calls[1]
           IN  /\ call.op = "fetch_all"
               /\ call.args[1] = Resource(ListedKind[ls_call.method])
               /\ Len(call.args) >= 2
               /\ call.args[2] = PyTuple(ls_call.ordering)
               /\ call.kwargs = ls_call.filters

\* The list_* methods without an `ordering` parameter.
ListMethodsWithoutOrdering == {"list_hook_run_data", "list_hook_templates"}

\* C19, amended: a list_* method calls fetch_all once, for its own resource
\* and with the caller's filters as the keyword arguments, none added,
\* dropped or altered; the caller's ordering is the argument after the
\* resource, but for list_hook_run_data and list_hook_templates, which have
\* no ordering and give fetch_all the resource alone; list_annotations and
\* list_engines give the caller's sideloads after the ordering, and
\* list_annotations the content_schema_ids after them.
C19_FiltersForwardedAndOrderingWhereTaken ==
    ListFetchStarted =>
        /\ Len(ls_fetch_all_calls) = 1
        /\ LET call == ls_fetch_all_calls[1]
               method == ls_call.method
           IN  /\ call.op = "fetch_all"
               /\ call.kwargs = ls_call.filters
               /\ call.args =
                     <<Resource(ListedKind[method])>>
                     \o (IF method \in ListMethodsWithoutOrdering THEN <<>>
                         ELSE <<PyTuple(ls_call.ordering)>>)
                     \o (IF method \in {"list_annotations", "list_engines"}
                         THEN <<PyTuple(ls_call.sideloads)>> ELSE <<>>)
                     \o (IF method = "list_annotations"
                         THEN <<PyTuple(ls_call.content_schema_ids)>> ELSE <<>>)

\* list_relations(type="edit", parent=123, key=None) has fetched with the
\* empty ordering and the three filters.
C19_Witness ==
    /\ ls_pc = "suspended"
    /\ ls_call.method = "list_relations"
    /\ ls_fetch_all_calls =
          <<HttpCall("fetch_all", <<Resource("Relation"), PyTuple(<<>>)>>,
                     [type |-> PyStr("edit"), parent |-> PyInt(123), key |-> None])>>

\* list_annotations raises before any fetch when the content is sideloaded
\* for no schema id.
NoFetchWhenValidationRaises ==
    /\ ls_pc = "raised"
    /\ ls_call.method = "list_annotations"
    /\ ls_fetch_all_calls = <<>>

-----------------------------------------------------------------------------
(* Claims about the sleeps of the polling loops *)

IsFetch(event) == "fetch" \in DOMAIN event
IsSleep(event) == "sleep" \in DOMAIN event

\* In the remembered history of a loop called with sleep_s: a fetch is
\* followed by a sleep and a sleep by a fetch, every sleep is of sleep_s
\* seconds, and the history starts with a fetch.  While there has been one
\* fetch only, the history is whole.
SleepAndRecheck(trace, sleep_s, rounds) ==
    /\ \A i \in 1..(Len(trace) - 1) : IsFetch(trace[i]) <=> IsSleep(trace[i + 1])
    /\ \A i \in 1..Len(trace) : IsSleep(trace[i]) => trace[i].sleep = sleep_s
    /\ (rounds <= 1 /\ trace # <<>>) => IsFetch(trace[1])
    /\ rounds = 0 => trace = <<>>

\* C21: in poll_annotation and in poll_task fetches and sleeps alternate,
\* starting with a fetch, so every fetch after the first comes right after
\* one sleep; every sleep is of sleep_s seconds, in every round; and when the
\* first object fetched satisfies the predicate there is no sleep.
C21_SleepAndRecheckWithoutBackoff ==
    /\ SleepAndRecheck(pa_log.trace, pa_sleep_s, pa_log.rounds)
    /\ (pa_log.rounds = 1
        /\ predicate(pa_predicate, deserializer("Annotation", pa_log.last_fetched)))
          => pa_log.trace = <<FetchEvent>>
    /\ SleepAndRecheck(pt_log.trace, pt_sleep_s, pt_log.rounds)
    /\ (pt_log.rounds = 1
        /\ predicate(pt_predicate, deserializer("Task", pt_log.last_retrieved)))
          => pt_log.trace = <<FetchEvent>>

\* poll_annotation has returned after three fetches or more, the last two
\* with one sleep of sleep_s seconds between them.
C21_Witness ==
    /\ pa_pc = "done"
    /\ pa_log.rounds = 2
    /\ pa_log.trace = <<SleepEvent(pa_sleep_s), FetchEvent, SleepEvent(pa_sleep_s)>>
                      \o <<FetchEvent>>
       \/ pa_log.trace = <<FetchEvent, SleepEvent(pa_sleep_s), FetchEvent>>

\* poll_task has returned the first task it retrieved, without a sleep.
PollTaskReturnsWithoutSleep ==
    /\ pt_pc = "done"
    /\ pt_log.trace = <<FetchEvent>>

\* poll_task has slept with a sleep_s other than the default.
PollTaskSleepsAsAsked ==
    /\ pt_pc = "done"
    /\ pt_sleep_s = 1
    /\ pt_log.trace = <<FetchEvent, SleepEvent(1), FetchEvent>>

-----------------------------------------------------------------------------
(* Claims about the sideloading of retrieve_annotation *)

\* _sideload has returned: the coroutine is at its return statement or past it.
SideloadReturned == pa_pc \in {"return", "done"} /\ pa_sideloads # <<>>

\* What the key of a sideload holds after the sideloading, given the URL it
\* held before: None for None, the JSON behind the URL otherwise, for
\* 'content' the value of its 'content' entry.
Sideloaded(sideload, url) ==
    IF url = None THEN None
    ELSE IF sideload = "content" THEN SideloadJson(url).content
    ELSE SideloadJson(url)

\* C22: after _sideload has returned in retrieve_annotation, the key of every
\* requested sideload holds the JSON fetched from the URL the fetched
\* annotation had under that key, whatever the order in which the fetches
\* finished; one request was made for it, none when the URL was None, and
\* the key then stays None; the other keys are as they were fetched; the
\* annotation returned is built from that JSON; and with no sideloads the
\* call has made the one request of the annotation.
C22_SideloadsAssignedToTheirKeys ==
    /\ SideloadReturned =>
          /\ \A i \in DOMAIN pa_sideloads :
                LET key == to_singular(pa_sideloads[i])
                    url == pa_log.last_fetched[key]
                IN  /\ annotation_json[key] = Sideloaded(pa_sideloads[i], url)
                    /\ pa_log.requests[i] = IF url = None THEN 0 ELSE 1
          /\ \A key \in DOMAIN annotation_json :
                (\A i \in DOMAIN pa_sideloads : to_singular(pa_sideloads[i]) # key)
                   => annotation_json[key] = pa_log.last_fetched[key]
          /\ pa_log.rounds = 1
    /\ pa_pc = "done" =>
          /\ pa_result = deserializer("Annotation", annotation_json)
          /\ pa_log.rounds = 1
          /\ pa_sideloads = <<>> =>
                /\ sideload_tasks = <<>>
                /\ annotation_json = pa_log.last_fetched

\* retrieve_annotation has returned with two different sideloads of which the
\* second was fetched first.
C22_Witness ==
    /\ pa_pc = "done"
    /\ pa_log.pred_true = FALSE
    /\ Len(pa_sideloads) = 2
    /\ pa_sideloads[1] # pa_sideloads[2]
    /\ pa_log.completed = <<2, 1>>
    /\ pa_log.requests = <<1, 1>>

\* The fetches are concurrent: two requests are in flight at once.
TwoSideloadsInFlight ==
    /\ pa_pc = "gather"
    /\ Len(sideload_tasks) = 2
    /\ sideload_tasks[1].state = "in_flight"
    /\ sideload_tasks[2].state = "in_flight"

\* The modifier of an annotation nobody has modified is None: no request is
\* made for it and it stays None.
NoRequestForNone ==
    /\ pa_pc = "done"
    /\ pa_log.pred_true = FALSE
    /\ pa_sideloads = <<"modifiers">>
    /\ pa_log.requests = <<0>>
    /\ annotation_json.modifier = None

\* retrieve_annotation has returned without sideloads.
RetrieveAnnotationWithoutSideloads ==
    /\ pa_pc = "done"
    /\ pa_log.pred_true = FALSE
    /\ pa_sideloads = <<>>
    /\ pa_log.rounds = 1

-----------------------------------------------------------------------------
(* Claims about the failures of an upload *)

\* The last segment of the path of a URL.
LastSegment(url) == url.path[Len(url.path)]

\* C23: in import_document every task sends one request of its own, with its
\* own file; a task that has got a response has closed its file, and it has
\* returned the id of the annotation of the response when the response holds
\* exactly one result, and raised, with no id, when it holds none or several;
\* a task whose request failed has closed its file too.
C23_OneAnnotationPerUpload ==
    up_op = "import_document" =>
        /\ \A i \in DOMAIN upload_tasks :
              LET t == upload_tasks[i] IN
              /\ t.sent > 0 =>
                    /\ t.sent <= Len(srv_uploads)
                    /\ srv_uploads[t.sent].body.content =
                          <<up_files[i][2], FileContent(up_files[i][1])>>
                    /\ \A j \in DOMAIN upload_tasks \ {i} : upload_tasks[j].sent # t.sent
              /\ t.response # Unset =>
                    /\ t.fp = "closed"
                    /\ IF Len(t.response.results) = 1
                       THEN /\ t.state = "done"
                            /\ ToString(t.result) = LastSegment(t.response.results[1].annotation)
                       ELSE /\ t.state = "raised"
                            /\ t.result = Unset
              /\ t.state \in {"done", "raised"} => t.fp = "closed"
              /\ t.fp = "open" <=> t.state \in {"opened", "in_flight"}
        /\ Cardinality({i \in DOMAIN upload_tasks : upload_tasks[i].sent > 0})
              = Len(srv_uploads)

\* Of two files imported, one got a response with two results and raised,
\* the other a response with one result and returned its id; both are closed.
C23_Witness ==
    /\ up_op = "import_document"
    /\ Len(upload_tasks) = 2
    /\ \E i, j \in DOMAIN upload_tasks :
          /\ upload_tasks[i].state = "raised"
          /\ upload_tasks[i].response # Unset
          /\ Len(upload_tasks[i].response.results) = 2
          /\ upload_tasks[i].fp = "closed"
          /\ upload_tasks[j].state = "done"
          /\ upload_tasks[j].fp = "closed"

\* An upload whose response holds no result has raised.
NoResultRaises ==
    /\ up_op = "import_document"
    /\ \E i \in DOMAIN upload_tasks :
          /\ upload_tasks[i].response # Unset
          /\ Len(upload_tasks[i].response.results) = 0
          /\ upload_tasks[i].state = "raised"

\* The call has raised, or returned.
CallRaised == up_pc = "raised"

\* C25: a call of import_document or upload_document that has raised has a
\* task that raised and has returned no list; a call that has returned a
\* list has no task that raised; and the step in which the call raises
\* leaves every task as it is: none is cancelled, and a task goes on after it.
C25_FailureLeavesOtherUploadsRunning ==
    /\ [](CallRaised =>
            /\ \E i \in DOMAIN upload_tasks : upload_tasks[i].state = "raised"
            /\ up_result = Unset)
    /\ [](up_pc = "done" =>
            \A i \in DOMAIN upload_tasks : upload_tasks[i].state = "done")
    /\ [](\A i \in DOMAIN upload_tasks :
            upload_tasks[i].state \in {"created", "opened", "in_flight", "retrieving",
                                       "done", "raised"})
    /\ [][(~CallRaised /\ CallRaised') => upload_tasks' = upload_tasks]_vars

\* Of two files, the upload of one raised and the call raised; the upload of
\* the other completed its request after that.
C25_Witness ==
    /\ CallRaised
    /\ Len(upload_tasks) = 2
    /\ \E i, j \in DOMAIN upload_tasks :
          /\ upload_tasks[i].state = "raised"
          /\ ~upload_tasks[i].late
          /\ upload_tasks[j].state = "done"
          /\ upload_tasks[j].late

\* The same for upload_document.
UploadDocumentCompletesAfterFailure ==
    /\ C25_Witness
    /\ up_op = "upload_document"

-----------------------------------------------------------------------------
(* Claims about the order of the traversal and the fields it selects *)

\* A place comes before another in document order: it is above it, or it
\* branches off to an earlier sibling.
RECURSIVE PlaceBefore(_, _)
PlaceBefore(a, b) ==
    IF a = <<>> THEN b # <<>>
    ELSE IF b = <<>> THEN FALSE
    ELSE IF Head(a) # Head(b) THEN Head(a) < Head(b)
    ELSE PlaceBefore(Tail(a), Tail(b))

InDocumentOrder(items) ==
    \A k, l \in DOMAIN items : k < l => PlaceBefore(items[k].at, items[l].at)

IsFieldOfType(n, type) == n.node.cls = "Datapoint" /\ n.node.type = type

\* The type the method called selects.
SelectedType == IF sc_call.op = "formula_fields" THEN "formula" ELSE "reasoning"

\* C24: formula_fields yields every datapoint of type 'formula' of the
\* schema and reasoning_fields every datapoint of type 'reasoning', each
\* once, nothing else, in document order, and yields the same whatever
\* ignore_buttons is.
C24_FieldsByType ==
    sc_call.op \in {"formula_fields", "reasoning_fields"} =>
        /\ \A n \in SchemaNodes :
              Occurrences(sc_result, n) = (IF IsFieldOfType(n, SelectedType) THEN 1 ELSE 0)
        /\ \A k \in DOMAIN sc_result : sc_result[k] \in SchemaNodes
        /\ InDocumentOrder(sc_result)
        /\ sc_result = (IF sc_call.op = "formula_fields"
                        THEN Schema_formula_fields(schema, ~sc_call.ignore_buttons)
                        ELSE Schema_reasoning_fields(schema, ~sc_call.ignore_buttons))

\* formula_fields has yielded the one formula of a schema that has a
\* reasoning datapoint and a button besides.
C24_Witness ==
    /\ sc_call.op = "formula_fields"
    /\ Len(sc_result) = 1
    /\ \E n \in SchemaNodes : IsFieldOfType(n, "reasoning")
    /\ \E n \in SchemaNodes : IsButton(n)

\* reasoning_fields has yielded two datapoints, one of them in a tuple.
TwoReasoningFields ==
    /\ sc_call.op = "reasoning_fields"
    /\ Len(sc_result) = 2
    /\ \E k \in DOMAIN sc_result : Len(sc_result[k].at) >= 3

\* The nodes a traversal yields: all but the sections and, when buttons are
\* ignored, the buttons.
Yielded(ignore_buttons) ==
    {n \in SchemaNodes : ~IsSection(n) /\ ~(ignore_buttons /\ IsButton(n))}

\* C26: traverse yields its nodes in document order, a node before the nodes
\* below it, siblings and sections in list order; every multivalue and every
\* tuple is among them, whatever its datapoints are; and get_by_id returns
\* the first in this order of the yielded nodes that have the id.
C26_PreOrder ==
    /\ sc_call.op = "traverse" =>
          /\ InDocumentOrder(sc_result)
          /\ \A n \in SchemaNodes :
                n.node.cls \in {"Multivalue", "Tuple"} => Occurrences(sc_result, n) = 1
    /\ sc_call.op = "get_by_id" =>
          LET having == {n \in Yielded(sc_call.ignore_buttons) : n.node.id = sc_call.node_id}
          IN  IF having = {} THEN sc_result = None
              ELSE /\ sc_result \in having
                   /\ \A n \in having \ {sc_result} : PlaceBefore(sc_result.at, n.at)

\* A traversal that ignores buttons has yielded a multivalue and then its
\* tuple, whose only datapoint is a button.
C26_Witness ==
    /\ sc_call.op = "traverse"
    /\ sc_call.ignore_buttons
    /\ \E k \in DOMAIN sc_result :
          /\ sc_result[k].node.cls = "Multivalue"
          /\ k + 1 \in DOMAIN sc_result
          /\ sc_result[k + 1].node.cls = "Tuple"
          /\ sc_result[k + 1].at = Append(sc_result[k].at, 1)
          /\ Len(sc_result[k + 1].node.children) = 1
          /\ is_button(sc_result[k + 1].node.children[1])

\* get_by_id has returned a multivalue whose tuple has the same id.
FirstOfSharedId ==
    /\ sc_call.op = "get_by_id"
    /\ sc_result # None
    /\ sc_result.node.cls = "Multivalue"
    /\ sc_result.node.children.id = sc_call.node_id

-----------------------------------------------------------------------------
(* Claims about missing children *)

\* The schema and every node of it, each with its place.
AllNodesOf(s) == {Yield(<<>>, s)} \cup NodesOf(s)

\* The nodes below a node, as a list.
Below(node) == IF node.cls = "Schema" THEN node.content ELSE node.children

\* Every dict of the data is built by the from_dict of the class of the
\* object it was made from: the object has the category of its class.
BuiltByOwnClass == \A n \in NodesOf(schema) : HasCategoryOfClass(n)

LackingChildren(cls) ==
    /\ sc_call.op = "from_dict"
    /\ "lacking" \in DOMAIN sc_call
    /\ sc_call.lacking = cls
    /\ BuiltByOwnClass

\* C30: from a dict in which the schema lacks 'content', or the sections or
\* the tuples lack 'children', Schema.from_dict returns a schema in which
\* these nodes have an empty list; from a dict in which a multivalue lacks
\* 'children' or holds None for it, Schema.from_dict raises.
C30_MissingChildren ==
    /\ \A cls \in {"Schema", "Section", "Tuple"} :
          LackingChildren(cls) =>
              /\ ~IsRaised(sc_result)
              /\ \A n \in AllNodesOf(sc_result) : n.node.cls = cls => Below(n.node) = <<>>
              /\ \A n \in AllNodesOf(schema) :
                    n.node.cls = cls =>
                        \E m \in AllNodesOf(sc_result) : m.at = n.at /\ m.node.cls = cls
    /\ LackingChildren("Multivalue") =>
          IF \E n \in NodesOf(schema) : n.node.cls = "Multivalue"
          THEN sc_result = Raised("MissingValueError")
          ELSE ~IsRaised(sc_result)

\* A schema whose multivalue lacks its children was not built, and a schema
\* was built of a tuple that lacks its children.
C30_Witness ==
    /\ LackingChildren("Multivalue")
    /\ IsRaised(sc_result)
    /\ \E n \in NodesOf(schema) : n.node.cls = "Multivalue"

TupleWithoutChildrenBuilt ==
    /\ LackingChildren("Tuple")
    /\ ~IsRaised(sc_result)
    /\ \E n \in NodesOf(sc_result) : n.node.cls = "Tuple" /\ n.node.children = <<>>
    /\ \E n \in NodesOf(schema) : n.node.cls = "Tuple" /\ n.node.children # <<>>

SectionWithoutChildrenBuilt ==
    /\ LackingChildren("Section")
    /\ \E n \in NodesOf(sc_result) : n.node.cls = "Section" /\ n.node.children = <<>>
    /\ \E n \in NodesOf(schema) : n.node.cls = "Section" /\ n.node.children # <<>>

SchemaWithoutContentBuilt ==
    /\ LackingChildren("Schema")
    /\ ~IsRaised(sc_result)
    /\ sc_result.content = <<>>
    /\ schema.content # <<>>

MultivalueWithNoneRaises ==
    /\ LackingChildren("Multivalue")
    /\ IsRaised(sc_result)
    /\ \E i \in DOMAIN sc_call.data.content.list :
          \E j \in DOMAIN sc_call.data.content.list[i].children.list :
              LET child == sc_call.data.content.list[i].children.list[j]
              IN  "children" \in DOMAIN child /\ IsNone(child.children)

-----------------------------------------------------------------------------
(* Claims about the dict given to from_dict *)

FromDictCalled == sc_call.op \in {"from_dict", "roundtrip"}

\* C27: after Schema.from_dict has returned or raised, with the from_dict
\* of the sections, multivalues and tuples called within it, the dict it was
\* given has the keys and the values it had, at every level; and
\* Rule.from_dict leaves the rule dict as it was.
C27_InputUnchanged ==
    /\ [](FromDictCalled => sc_call.data_after = sc_call.data)
    /\ [][rule_data' = rule_data]_vars

\* A schema was built from a dict that holds a section, a multivalue and a
\* tuple with a datapoint: the dict still holds the dicts of the children.
C27_Witness ==
    /\ FromDictCalled
    /\ ~IsRaised(sc_result)
    /\ \E n \in NodesOf(sc_result) : n.node.cls = "Tuple" /\ Len(n.at) = 3
    /\ IsDict(sc_call.data_after.content.list[1].children.list[1].children)

\* Schema.from_dict has raised within a multivalue, after the dicts above it
\* were copied and popped.
RaisedBelowSection ==
    /\ FromDictCalled
    /\ IsRaised(sc_result)
    /\ \E n \in NodesOf(schema) : n.node.cls = "Multivalue"

\* Rule.from_dict has returned a rule with two actions.
RuleWithActionsBuilt ==
    /\ RuleReturned
    /\ Len(rule_result.actions) = 2
    /\ "actions" \in DOMAIN rule_data

\* Rule.from_dict has raised for its second action.
RuleRaisedForAction ==
    /\ RuleCalled
    /\ IsRaised(rule_result)
    /\ Len(InputActions) = 2
    /\ ~IsRaised(RuleAction_from_dict(InputActions[1]))

-----------------------------------------------------------------------------
(* Claims about the parent of a node *)

HasNoParent(n) == Node_parent(n.node) = None

DatapointOfTupleYielded ==
    /\ sc_call.op = "traverse"
    /\ \E k \in DOMAIN sc_result :
          sc_result[k].node.cls = "Datapoint" /\ Len(sc_result[k].at) >= 3

-----------------------------------------------------------------------------
(* Claims about the table of payload classes *)

\* An action dict that has the keys RuleAction.from_dict subscripts.
HasActionKeys(data) == {"id", "type", "event"} \subseteq DOMAIN data

\* The payload was converted to an object of a payload class.
IsPayloadObject(payload) == "cls" \in DOMAIN payload

CustomPayloadKeptAsDict ==
    /\ RuleReturned
    /\ Len(rule_result.actions) = 2
    /\ rule_result.actions[1].type = "custom"
    /\ ~IsPayloadObject(rule_result.actions[1].payload)
    /\ rule_result.actions[2].type = "send_email"
    /\ IsPayloadObject(rule_result.actions[2].payload)

====
